---- MODULE Spec2Model ----
(***************************************************************************)
(* A model of the FBX importer of Stardazed TX: the text parser            *)
(* (asset-fbx-text.ts), the document graph and its resolver (asset-fbx.ts) *)
(* and the file helpers they use (asset-io.ts).                            *)
(***************************************************************************)
EXTENDS Integers, Sequences, FiniteSets, TLC

VARIABLES
    parser,     \* the fields of FBXTextParser
    pc,         \* where parse() is: "parsing", "done", "error", "threw"
    out,        \* the delegate callbacks made by the latest step, in order
    delegate,   \* what the delegate has observed: counters and assets_
    ghost,      \* the block structure of the tokens consumed so far
    graph,      \* the fields of FBXDocumentGraph, and the nodes it holds
    rs,         \* the resolve() call in progress, and how the last one ended
    gg,         \* the calls made on the graph so far
    builder,    \* the fields of FBX7DocumentParser, and its latest callback
    tokenizer   \* the fields of FBXTextTokenizer, and the token it returned last

pvars == <<parser, pc, out, delegate, ghost>>
gvars == <<graph, rs, gg>>
bvars == <<builder>>
tvars == <<tokenizer>>
vars == <<parser, pc, out, delegate, ghost, graph, rs, gg, builder, tokenizer>>

----------------------------------------------------------------------------
(* Bounds of the model *)

MaxDepth == 2         \* blocks nested in one another
MaxValues == 5        \* pending values of one key
MaxArrayCount == 2    \* largest N of an ArrayCount token

----------------------------------------------------------------------------
(* Values: number | string | typed array, plus JavaScript's null/undefined *)

Str(x) == [t |-> "str", s |-> x, n |-> 0, a |-> <<>>]
Num(k) == [t |-> "num", s |-> "", n |-> k, a |-> <<>>]
Arr(kind, data) == [t |-> "arr", s |-> kind, n |-> Len(data), a |-> data]
Null == [t |-> "null", s |-> "", n |-> 0, a |-> <<>>]
Undefined == [t |-> "undefined", s |-> "", n |-> 0, a |-> <<>>]

Truthy(v) ==
    CASE v.t = "null" -> FALSE
      [] v.t = "undefined" -> FALSE
      [] v.t = "num" -> v.n # 0
      [] v.t = "str" -> v.s # ""
      [] OTHER -> TRUE

----------------------------------------------------------------------------
(* Tokens *)

TokenType == {"Invalid", "EOF", "Key", "String", "Number", "ArrayCount",
              "OpenBlock", "CloseBlock", "Comma"}

KeyNames == {"a", "P", "Properties70"}
StringVals == {"s"}
NumberVals == {1}
\* source offsets a token can carry
Offsets == {0, 1}

Token(type, val, offset) == [type |-> type, val |-> val, offset |-> offset]

\* What nextToken() can return: only Key, String, Number, ArrayCount and
\* Invalid tokens carry a val.
Tokens ==
    {Token("Key", Str(k), o) : k \in KeyNames, o \in Offsets}
    \cup {Token("String", Str(s), o) : s \in StringVals, o \in Offsets}
    \cup {Token("Number", Num(k), o) : k \in NumberVals, o \in Offsets}
    \cup {Token("ArrayCount", Num(k), o) : k \in 1..MaxArrayCount, o \in Offsets}
    \cup {Token("Invalid", Str("?"), o) : o \in Offsets}
    \cup {Token(ty, Undefined, o) : ty \in {"OpenBlock", "CloseBlock", "Comma", "EOF"},
                                    o \in Offsets}

----------------------------------------------------------------------------
(* enum Expect: the bit mask is the set of its bits *)

ExpectKey == {"Key"}
ExpectValue == {"Value"}
ExpectComma == {"Comma"}
ExpectOpen == {"Open"}
ExpectClose == {"Close"}
ExpectValueOrOpen == ExpectValue \cup ExpectOpen
ExpectCommaOrOpenOrKey == ExpectKey \cup ExpectOpen \cup ExpectComma

\* skippingUntilDepth_ when no block is being skipped
NoSkipDepth == 1000

ParserInit ==
    [expect_ |-> ExpectKey,
     expectNextKey_ |-> Null,
     eof_ |-> FALSE,
     depth_ |-> 0,
     inProp70Block_ |-> FALSE,
     skippingUntilDepth_ |-> NoSkipDepth,
     array_ |-> Null,
     arrayLength_ |-> 0,
     arrayIndex_ |-> 0,
     values_ |-> <<>>]

----------------------------------------------------------------------------
(* Delegate callbacks, as the delegate receives them *)

Call(cb) ==
    [cb |-> cb, name |-> Undefined, values |-> <<>>, type |-> "",
     typeName |-> Undefined, ret |-> "", msg |-> "", offset |-> -1, token |-> ""]

BlockCall(name, values, ret) ==
    [Call("block") EXCEPT !.name = name, !.values = values, !.ret = ret]
EndBlockCall == Call("endBlock")
PropertyCall(name, values) ==
    [Call("property") EXCEPT !.name = name, !.values = values]
TypedPropertyCall(name, type, typeName, values) ==
    [Call("typedProperty") EXCEPT !.name = name, !.type = type,
                                  !.typeName = typeName, !.values = values]
ErrorCall(msg, offset, token) ==
    [Call("error") EXCEPT !.msg = msg, !.offset = offset, !.token = token]
CompletedCall == Call("completed")

\* The result of running a piece of parse(): the parser afterwards, the
\* callbacks made, whether an exception escaped, whether parse() returned.
\* unexp: the token was not one the parser expected.
Ok(ps) == [ps |-> ps, calls |-> <<>>, threw |-> FALSE, ret |-> FALSE,
           unexp |-> FALSE, action |-> "Enter"]
Throw(ps) == [Ok(ps) EXCEPT !.threw = TRUE]

\* val.toString()
ValToString(v) == IF v.t = "num" THEN ToString(v.n) ELSE v.s

----------------------------------------------------------------------------
(* interpretProp70P and its type table (asset-fbx.ts) *)

ToLowerCase(s) ==
    CASE s = "Int" -> "int"
      [] s = "KString" -> "kstring"
      [] s = "Vector3D" -> "vector3d"
      [] OTHER -> s

fbxTypeNameMapping(s) ==
    CASE s \in {"enum", "int", "integer"} -> "Int"
      [] s \in {"float", "double", "number", "ulonglong", "fieldofview",
                "fieldofviewx", "fieldofviewy", "roll", "opticalcenterx",
                "opticalcentery"} -> "Double"
      [] s \in {"bool", "visibility", "visibility inheritance"} -> "Bool"
      [] s = "ktime" -> "Time"
      [] s \in {"kstring", "datetime"} -> "String"
      [] s \in {"vector3d", "vector", "color", "colorrgb", "lcl translation",
                "lcl rotation", "lcl scaling"} -> "Vector3D"
      [] s = "colorandalpha" -> "Vector4D"
      [] s = "object" -> "Object"
      [] s = "compound" -> "Empty"
      [] OTHER -> "Unknown"

\* threw: the length assertion failed, or typeName is no string
\* (toLowerCase is not a function of a number or an array).
interpretProp70P(pValues) ==
    IF Len(pValues) < 4 \/ pValues[2].t # "str"
    THEN [threw |-> TRUE, name |-> Undefined, typeName |-> Undefined,
          type |-> "Unknown", values |-> <<>>]
    ELSE [threw |-> FALSE,
          name |-> pValues[1],
          typeName |-> pValues[2],
          type |-> fbxTypeNameMapping(ToLowerCase(pValues[2].s)),
          values |-> SubSeq(pValues, 5, Len(pValues))]

----------------------------------------------------------------------------
(* FBXTextParser (asset-fbx-text.ts) *)

\* The mutant: reports the error and lets the loop go on.
unexpected_NoStop(ps, t) ==
    IF t.val = Undefined
    THEN [Throw(ps) EXCEPT !.unexp = TRUE]
    ELSE [Ok(ps) EXCEPT
            !.unexp = TRUE,
            !.calls = <<ErrorCall(IF t.type = "Invalid" THEN "Invalid token"
                                  ELSE "Unexpected token",
                                  t.offset, ValToString(t.val))>>]

unexpected(ps, t) ==
    IF t.val = Undefined
    THEN [Throw(ps) EXCEPT !.unexp = TRUE]  \* t.val.toString() of a token without val
    ELSE [Ok([ps EXCEPT !.eof_ = TRUE]) EXCEPT
            !.unexp = TRUE,
            !.calls = <<ErrorCall(IF t.type = "Invalid" THEN "Invalid token"
                                  ELSE "Unexpected token",
                                  t.offset, ValToString(t.val))>>]

\* return this.unexpected(token)
unexpectedReturn(ps, t) == [unexpected(ps, t) EXCEPT !.ret = TRUE]

\* action: what the delegate's block() answers if it is asked
reportBlock(ps, action) ==
    IF Len(ps.values_) = 0 THEN Throw(ps)
    ELSE LET blockName == ps.values_[1] IN
         IF ps.array_ # Null THEN Ok(ps)
         ELSE IF blockName = Str("Properties70")
              THEN Ok([ps EXCEPT !.inProp70Block_ = TRUE, !.values_ = <<>>])
              ELSE IF ps.depth_ <= ps.skippingUntilDepth_
                   THEN [Ok([ps EXCEPT !.values_ = <<>>]) EXCEPT
                           !.calls = <<BlockCall(blockName, Tail(ps.values_), action)>>,
                           !.action = action]
                   ELSE Ok([ps EXCEPT !.values_ = <<>>])

reportProperty(ps) ==
    IF Len(ps.values_) = 0 THEN Throw(ps)
    ELSE LET propName == ps.values_[1]
             values == Tail(ps.values_)
             p70p == interpretProp70P(values)
             cleared == [ps EXCEPT !.values_ = <<>>]
         IN IF ps.depth_ <= ps.skippingUntilDepth_
            THEN IF ps.inProp70Block_
                 THEN IF propName # Str("P") \/ p70p.threw
                      THEN Throw(ps)
                      ELSE [Ok(cleared) EXCEPT
                              !.calls = <<TypedPropertyCall(p70p.name, p70p.type,
                                                            p70p.typeName, p70p.values)>>]
                 ELSE [Ok(cleared) EXCEPT !.calls = <<PropertyCall(propName, values)>>]
            ELSE Ok(cleared)

Int32Keys == {"PolygonVertexIndex", "UVIndex", "Edges", "Materials",
              "KeyAttrFlags", "KeyAttrRefCount"}
Float32Keys == {"KeyValueFloat", "KeyAttrDataFloat"}
Float64Keys == {"Vertices", "Normals", "NormalsW", "UV", "KeyTime"}

\* The mutant: every array is a Float64Array.
arrayForKey_AllFloat64(key, elementCount) ==
    Arr("Float64", [i \in 1..elementCount |-> 0])

\* A new typed array: elementCount zeroes of the key's element type.
arrayForKey(key, elementCount) ==
    LET kind == IF key.t = "str" /\ key.s \in Int32Keys THEN "Int32"
                ELSE IF key.t = "str" /\ key.s \in Float32Keys THEN "Float32"
                ELSE "Float64"
    IN Arr(kind, [i \in 1..elementCount |-> 0])

\* array[i] = v. The numbers of this model are integers within the int32
\* range, which ToInt32 (Int32Array) and the float conversions keep.
Int32Min == -2147483647 - 1
Int32Max == 2147483647
ToElement(kind, v) ==
    IF kind = "Int32"
    THEN IF v > Int32Max THEN Int32Min + ((v - Int32Max) - 1) ELSE v
    ELSE v

----------------------------------------------------------------------------
(* parse(): one iteration of the loop per token kind *)

KeyCase(ps, t) ==
    IF "Key" \in ps.expect_
    THEN IF ps.expectNextKey_ = Null \/ ps.expectNextKey_ = t.val
         THEN LET rp == IF t.val # Str("a") /\ Len(ps.values_) > 0
                        THEN reportProperty(ps) ELSE Ok(ps)
                  pushed == IF t.val # Str("a")
                            THEN [rp.ps EXCEPT !.values_ = Append(@, t.val)]
                            ELSE rp.ps
              IN IF rp.threw THEN rp
                 ELSE [rp EXCEPT !.ps = [pushed EXCEPT !.expect_ = ExpectValueOrOpen,
                                                       !.expectNextKey_ = Null]]
         ELSE unexpectedReturn(ps, t)
    ELSE unexpectedReturn(ps, t)

\* case TokenType.String / TokenType.Number
ValueCase(ps, t) ==
    IF ps.expectNextKey_ = Null /\ "Value" \in ps.expect_
    THEN IF Truthy(ps.array_)
         THEN IF t.type # "Number"
              THEN [Ok(ps) EXCEPT
                      !.unexp = TRUE,
                      !.calls = <<ErrorCall("Only numbers are allowed in arrays",
                                            t.offset, ValToString(t.val))>>,
                      !.ret = TRUE]
              ELSE LET i == ps.arrayIndex_ + 1
                       stored == IF i <= Len(ps.array_.a)
                                 THEN [ps.array_ EXCEPT
                                         !.a[i] = ToElement(ps.array_.s, t.val.n)]
                                 ELSE ps.array_
                       full == i = ps.arrayLength_
                       ps1 == [ps EXCEPT
                                 !.array_ = stored,
                                 !.arrayIndex_ = i,
                                 !.values_ = IF full THEN Append(@, stored) ELSE @,
                                 !.expect_ = IF full THEN ExpectClose ELSE ExpectComma]
                   IN Ok([ps1 EXCEPT !.expect_ =
                            IF ps.depth_ > 0 THEN @ \cup ExpectClose ELSE @])
         ELSE Ok([ps EXCEPT
                    !.values_ = Append(@, t.val),
                    !.expect_ = IF ps.depth_ > 0
                                THEN ExpectCommaOrOpenOrKey \cup ExpectClose
                                ELSE ExpectCommaOrOpenOrKey])
    ELSE unexpectedReturn(ps, t)

\* The mutant: the next key is not forced to be a.
ArrayCountCase_AnyNextKey(ps, t) ==
    IF ps.expectNextKey_ = Null /\ ps.expect_ = ExpectValueOrOpen
    THEN LET key == IF Len(ps.values_) > 0 THEN ps.values_[1] ELSE Undefined
             array == arrayForKey(key, t.val.n)
         IN Ok([ps EXCEPT !.array_ = array,
                          !.arrayIndex_ = 0,
                          !.arrayLength_ = Len(array.a),
                          !.expect_ = ExpectOpen])
    ELSE unexpectedReturn(ps, t)

ArrayCountCase(ps, t) ==
    IF ps.expectNextKey_ = Null /\ ps.expect_ = ExpectValueOrOpen
    THEN LET key == IF Len(ps.values_) > 0 THEN ps.values_[1] ELSE Undefined
             array == arrayForKey(key, t.val.n)
         IN Ok([ps EXCEPT !.array_ = array,
                          !.arrayIndex_ = 0,
                          !.arrayLength_ = Len(array.a),
                          !.expect_ = ExpectOpen,
                          !.expectNextKey_ = Str("a")])
    ELSE unexpectedReturn(ps, t)

\* The mutant: the block is entered without counting it.
OpenBlockCase_SameDepth(ps, t, action) ==
    IF "Open" \in ps.expect_
    THEN LET rb == reportBlock(ps, action)
         IN IF rb.threw THEN rb
            ELSE [rb EXCEPT !.ps = [rb.ps EXCEPT !.expect_ = ExpectKey \cup ExpectClose]]
    ELSE unexpected(ps, t)

OpenBlockCase(ps, t, action) ==
    IF "Open" \in ps.expect_
    THEN LET rb == reportBlock(ps, action)
             ps1 == IF rb.action = "Skip"
                    THEN [rb.ps EXCEPT !.skippingUntilDepth_ = rb.ps.depth_]
                    ELSE rb.ps
         IN IF rb.threw THEN rb
            ELSE [rb EXCEPT !.ps =
                    [ps1 EXCEPT !.depth_ = @ + 1,
                                !.expect_ = IF ps1.expectNextKey_ = Null
                                            THEN ExpectKey \cup ExpectClose
                                            ELSE ExpectKey]]
    ELSE unexpected(ps, t)

\* The mutant: endBlock() is called whether or not the block is skipped.
CloseBlockCase_NoSkipGuard(ps, t) ==
    IF ps.expectNextKey_ = Null /\ "Close" \in ps.expect_
    THEN LET rp == IF Len(ps.values_) > 0 THEN reportProperty(ps) ELSE Ok(ps)
             p1 == rp.ps
             endBlock == ~Truthy(p1.array_) /\ ~p1.inProp70Block_
             p2 == IF Truthy(p1.array_) THEN [p1 EXCEPT !.array_ = Null]
                   ELSE IF p1.inProp70Block_ THEN [p1 EXCEPT !.inProp70Block_ = FALSE]
                   ELSE p1
             p3 == [p2 EXCEPT !.depth_ = @ - 1]
             p4 == IF p3.depth_ = p3.skippingUntilDepth_
                   THEN [p3 EXCEPT !.skippingUntilDepth_ = NoSkipDepth]
                   ELSE p3
         IN IF rp.threw THEN rp
            ELSE [rp EXCEPT
                    !.calls = IF endBlock THEN Append(@, EndBlockCall) ELSE @,
                    !.ps = [p4 EXCEPT !.expect_ = IF p4.depth_ > 0
                                                  THEN ExpectKey \cup ExpectClose
                                                  ELSE ExpectKey]]
    ELSE unexpected(ps, t)

CloseBlockCase(ps, t) ==
    IF ps.expectNextKey_ = Null /\ "Close" \in ps.expect_
    THEN LET rp == IF Len(ps.values_) > 0 THEN reportProperty(ps) ELSE Ok(ps)
             p1 == rp.ps
             endBlock == ~Truthy(p1.array_) /\ ~p1.inProp70Block_
                         /\ p1.depth_ <= p1.skippingUntilDepth_
             p2 == IF Truthy(p1.array_) THEN [p1 EXCEPT !.array_ = Null]
                   ELSE IF p1.inProp70Block_ THEN [p1 EXCEPT !.inProp70Block_ = FALSE]
                   ELSE p1
             p3 == [p2 EXCEPT !.depth_ = @ - 1]
             p4 == IF p3.depth_ = p3.skippingUntilDepth_
                   THEN [p3 EXCEPT !.skippingUntilDepth_ = NoSkipDepth]
                   ELSE p3
         IN IF rp.threw THEN rp
            ELSE [rp EXCEPT
                    !.calls = IF endBlock THEN Append(@, EndBlockCall) ELSE @,
                    !.ps = [p4 EXCEPT !.expect_ = IF p4.depth_ > 0
                                                  THEN ExpectKey \cup ExpectClose
                                                  ELSE ExpectKey]]
    ELSE unexpected(ps, t)

CommaCase(ps, t) ==
    IF ps.expectNextKey_ = Null /\ "Comma" \in ps.expect_
    THEN Ok([ps EXCEPT !.expect_ = ExpectValue])
    ELSE unexpected(ps, t)

InvalidCase(ps, t) == unexpected(ps, t)

\* The mutant: the end of the input does not end the loop.
EOFCase_GoOn(ps, t) == Ok(ps)

EOFCase(ps, t) == Ok([ps EXCEPT !.eof_ = TRUE])

\* switch (token.type)
TokenCase(ps, t, action) ==
    CASE t.type = "Key" -> KeyCase(ps, t)
      [] t.type \in {"String", "Number"} -> ValueCase(ps, t)
      [] t.type = "ArrayCount" -> ArrayCountCase(ps, t)
      [] t.type = "OpenBlock" -> OpenBlockCase(ps, t, action)
      [] t.type = "CloseBlock" -> CloseBlockCase(ps, t)
      [] t.type = "Comma" -> CommaCase(ps, t)
      [] t.type = "Invalid" -> InvalidCase(ps, t)
      [] t.type = "EOF" -> EOFCase(ps, t)

----------------------------------------------------------------------------
(* The delegate: FBXParserDelegate as FBX7DocumentParser implements it.    *)
(* What block() answers is left open here: Enter or Skip.                  *)

DelegateInit ==
    [depth |-> 0, nError |-> 0, nCompleted |-> 0, assets_ |-> "null"]

\* completed(): this.assets_ = this.doc.resolve()
completed(d) == [d EXCEPT !.nCompleted = @ + 1, !.assets_ = "promise"]

Receive(d, c) ==
    CASE c.cb = "block" /\ c.ret = "Enter" -> [d EXCEPT !.depth = @ + 1]
      [] c.cb = "endBlock" -> [d EXCEPT !.depth = @ - 1]
      [] c.cb = "error" -> [d EXCEPT !.nError = @ + 1]
      [] c.cb = "completed" -> completed(d)
      [] OTHER -> d

RECURSIVE Deliver(_, _)
Deliver(d, calls) ==
    IF calls = <<>> THEN d ELSE Deliver(Receive(d, Head(calls)), Tail(calls))

Has(calls, cb) == \E i \in 1..Len(calls) : calls[i].cb = cb

----------------------------------------------------------------------------
(* The block structure of the input, read off the tokens alone: one entry  *)
(* per open block, with what opened it and what block() answered for it.   *)

NoEntry == [kind |-> "none", called |-> "none"]
NoToken == [type |-> "none", offset |-> 0]

GhostInit ==
    [stack |-> <<>>, lastType |-> "none", key |-> Undefined,
     closed |-> NoEntry, wellFormed |-> TRUE, rejected |-> NoToken]

Top(g) == IF g.stack = <<>> THEN NoEntry ELSE g.stack[Len(g.stack)]

\* wellFormed: the key a only inside an array wrapper, only P in Properties70
GhostKey(g, t) ==
    [g EXCEPT !.lastType = "Key", !.key = t.val, !.closed = NoEntry,
              !.wellFormed = @ /\ (t.val = Str("a") => Top(g).kind = "array")
                               /\ (Top(g).kind = "p70" => t.val = Str("P"))]

\* wellFormed: no block inside Properties70, no block opened by the key a
GhostOpen(g, calls) ==
    LET kind == IF g.lastType = "ArrayCount" THEN "array"
                ELSE IF g.key = Str("Properties70") THEN "p70"
                ELSE "plain"
        called == IF Has(calls, "block") THEN calls[Len(calls)].ret ELSE "none"
    IN [g EXCEPT !.lastType = "OpenBlock",
                 !.key = Undefined,
                 !.stack = Append(@, [kind |-> kind, called |-> called]),
                 !.closed = NoEntry,
                 !.wellFormed = @ /\ Top(g).kind # "p70"
                                  /\ ~(g.lastType = "Key" /\ g.key = Str("a"))]

GhostClose(g) ==
    [g EXCEPT !.lastType = "CloseBlock",
              !.key = Undefined,
              !.stack = SubSeq(@, 1, Len(@) - 1),
              !.closed = Top(g),
              !.wellFormed = @ /\ g.stack # <<>>]

\* wellFormed: balanced braces
GhostEOF(g) ==
    [g EXCEPT !.lastType = "EOF", !.closed = NoEntry,
              !.wellFormed = @ /\ g.stack = <<>>]

\* The token was not one the parser expected: the structure stays as it
\* is; the token's kind and source offset are kept.
GhostRejected(g, t) ==
    [g EXCEPT !.lastType = "rejected", !.closed = NoEntry,
              !.rejected = [type |-> t.type, offset |-> t.offset]]

\* An assertion failed while the token was handled.
GhostAborted(g) == [g EXCEPT !.lastType = "aborted", !.closed = NoEntry]

GhostOther(g, t) == [g EXCEPT !.lastType = t.type, !.closed = NoEntry]

InSkip(g) == \E i \in 1..Len(g.stack) : g.stack[i].called = "Skip"

----------------------------------------------------------------------------
(* parse(): the loop, one token per step *)

\* parse() reads arrayLength_ and arrayIndex_ only while array_ is set, and
\* the ArrayCount case assigns all three together: once array_ is null the
\* two counters are dead, and the state keeps them at 0.
Live(ps) ==
    IF ps.array_ = Null THEN [ps EXCEPT !.arrayLength_ = 0, !.arrayIndex_ = 0]
    ELSE ps

\* r: the result of the case of token t; g: the block structure after it
Iteration(r, g, t) ==
    LET d == Deliver(delegate, r.calls) IN
    /\ parser' = Live(r.ps)
    /\ out' = r.calls
    /\ delegate' = d
    /\ pc' = IF r.threw THEN "threw"
             ELSE IF ~(r.ret \/ r.ps.eof_) THEN "parsing"
             ELSE IF d.nError > 0 THEN "error"
             ELSE "done"
    /\ ghost' = IF r.unexp THEN GhostRejected(ghost, t)
                ELSE IF r.threw THEN GhostAborted(ghost)
                ELSE g

\* an iteration on a token that is given
Step(r, g, t) == Iteration(r, g, t) /\ UNCHANGED <<gvars, bvars, tvars>>

OfType(ty) == {t \in Tokens : t.type = ty}

\* The inputs give numbers only while an array is open: outside an array
\* the String/Number case treats the two kinds of value token alike.
ValueTokens(ps) ==
    OfType("String") \cup (IF ps.array_ # Null THEN OfType("Number") ELSE {})

OnKey ==
    /\ pc = "parsing"
    /\ \E t \in OfType("Key") : Step(KeyCase(parser, t), GhostKey(ghost, t), t)

OnValue ==
    /\ pc = "parsing"
    /\ Len(parser.values_) < MaxValues
    /\ \E t \in ValueTokens(parser) :
          Step(ValueCase(parser, t), GhostOther(ghost, t), t)

OnArrayCount ==
    /\ pc = "parsing"
    /\ \E t \in OfType("ArrayCount") :
          Step(ArrayCountCase(parser, t), GhostOther(ghost, t), t)

OnOpenBlock ==
    /\ pc = "parsing"
    /\ Len(ghost.stack) < MaxDepth
    /\ \E t \in OfType("OpenBlock"), action \in {"Enter", "Skip"} :
          LET r == OpenBlockCase(parser, t, action)
          IN Step(r, GhostOpen(ghost, r.calls), t)

OnCloseBlock ==
    /\ pc = "parsing"
    /\ delegate.depth >= 0
    /\ \E t \in OfType("CloseBlock") :
          LET r == CloseBlockCase(parser, t)
          IN Step(r, GhostClose(ghost), t)

OnComma ==
    /\ pc = "parsing"
    /\ \E t \in OfType("Comma") : Step(CommaCase(parser, t), GhostOther(ghost, t), t)

OnInvalid ==
    /\ pc = "parsing"
    /\ \E t \in OfType("Invalid") : Step(InvalidCase(parser, t), GhostOther(ghost, t), t)

OnEOF ==
    /\ pc = "parsing"
    /\ \E t \in OfType("EOF") : Step(EOFCase(parser, t), GhostEOF(ghost), t)


----------------------------------------------------------------------------
(* Bounds of the document graph *)

MaxObjects == 2       \* objects added to one graph
MaxConns == 2         \* Connection objects made for one graph
MaxGlobals == 1       \* global settings of one graph
MaxResolves == 2      \* resolve() calls on one graph

----------------------------------------------------------------------------
(* FBXTextTokenizer.  A source is a sequence of characters; offsets count  *)
(* from 0, so the character at offset o is source[o + 1].  lastChar is     *)
(* "null" past the end of the source.                                      *)

MaxSource == 4        \* characters of a source drawn from SourceChars

WhiteSpace == {" ", "\t", "\r", "\n"}
BreakChars == WhiteSpace \cup {",", "{", "}"}

\* firstChar >= 'A' && firstChar <= 'Z' || firstChar >= 'a' && firstChar <= 'z'
Letters ==
    {"A", "B", "C", "D", "E", "F", "G", "H", "I", "J", "K", "L", "M",
     "N", "O", "P", "Q", "R", "S", "T", "U", "V", "W", "X", "Y", "Z",
     "a", "b", "c", "d", "e", "f", "g", "h", "i", "j", "k", "l", "m",
     "n", "o", "p", "q", "r", "s", "t", "u", "v", "w", "x", "y", "z"}

Digits == {"0", "1", "2", "3", "4", "5", "6", "7", "8", "9"}

DigitValue(c) ==
    CASE c = "0" -> 0 [] c = "1" -> 1 [] c = "2" -> 2 [] c = "3" -> 3
      [] c = "4" -> 4 [] c = "5" -> 5 [] c = "6" -> 6 [] c = "7" -> 7
      [] c = "8" -> 8 [] c = "9" -> 9

MaxInt32 == 2147483647
Half == 65536

\* String.prototype.substring(a, b) for a <= b
Substring(source, a, b) ==
    SubSeq(source, a + 1, IF b < Len(source) THEN b ELSE Len(source))

\* the digits at the front of cs
RECURSIVE DigitPrefix(_)
DigitPrefix(cs) ==
    IF cs = <<>> \/ Head(cs) \notin Digits THEN <<>>
    ELSE <<Head(cs)>> \o DigitPrefix(Tail(cs))

\* the value of a digit string, and whether it is beyond 2^31 - 1
RECURSIVE WholeOf(_, _)
WholeOf(ds, acc) ==
    IF ds = <<>> THEN acc
    ELSE LET d == DigitValue(Head(ds))
         IN IF acc.big \/ acc.whole > (MaxInt32 - d) \div 10
            THEN WholeOf(Tail(ds), [whole |-> 0, big |-> TRUE])
            ELSE WholeOf(Tail(ds), [whole |-> acc.whole * 10 + d, big |-> FALSE])

\* the value of a digit string modulo 2^32, in two halves of 16 bits
RECURSIVE Mod32Of(_, _)
Mod32Of(ds, acc) ==
    IF ds = <<>> THEN acc
    ELSE LET lo == acc.lo * 10 + DigitValue(Head(ds))
             hi == acc.hi * 10 + lo \div Half
         IN Mod32Of(Tail(ds), [hi |-> hi % Half, lo |-> lo % Half])

\* the signed 32-bit integer of the two halves
Signed32(hi, lo) ==
    IF hi >= Half \div 2 THEN (hi - Half) * Half + lo ELSE hi * Half + lo

\* ToInt32 of the integer part of a number: value | 0
ToInt32(neg, ds) ==
    LET m == Mod32Of(ds, [hi |-> 0, lo |-> 0])
    IN IF ~neg \/ (m.hi = 0 /\ m.lo = 0) THEN Signed32(m.hi, m.lo)
       ELSE Signed32((Half - 1 - m.hi + (IF m.lo = 0 THEN 1 ELSE 0)) % Half,
                     (Half - m.lo) % Half)

\* the digits after the point without the zeros at their end
RECURSIVE TrimZeros(_)
TrimZeros(ds) ==
    IF ds = <<>> \/ ds[Len(ds)] # "0" THEN ds
    ELSE TrimZeros(SubSeq(ds, 1, Len(ds) - 1))

NaN == [nan |-> TRUE, neg |-> FALSE, whole |-> 0, big |-> FALSE, frac |-> <<>>,
        int32 |-> 0]

IntNumber(k) ==
    [nan |-> FALSE, neg |-> k < 0,
     whole |-> IF k < -MaxInt32 THEN 0 ELSE IF k < 0 THEN -k ELSE k,
     big |-> k < -MaxInt32, frac |-> <<>>, int32 |-> k]

\* parseFloat: a sign, digits, a point and digits, and whatever follows is
\* ignored; a number is kept as its sign, its integer part (whole, or big
\* when that is beyond 2^31 - 1), the digits of its fraction and its int32
\* (value | 0).  Exponents and Infinity are not among the characters of
\* the sources.
parseFloat(cs) ==
    LET signed == cs # <<>> /\ Head(cs) \in {"-", "+"}
        neg == cs # <<>> /\ Head(cs) = "-"
        rest == IF signed THEN Tail(cs) ELSE cs
        ints == DigitPrefix(rest)
        after == SubSeq(rest, Len(ints) + 1, Len(rest))
        fracs == IF after # <<>> /\ Head(after) = "." THEN DigitPrefix(Tail(after))
                 ELSE <<>>
        w == WholeOf(ints, [whole |-> 0, big |-> FALSE])
    IN IF ints = <<>> /\ fracs = <<>> THEN NaN
       ELSE [nan |-> FALSE, neg |-> neg, whole |-> w.whole, big |-> w.big,
             frac |-> TrimZeros(fracs), int32 |-> ToInt32(neg, ints)]

\* count != (count | 0): the int32 of a number is the number only when it
\* has no fraction and its integer part is within 32 bits
IsInt32(x) == x.frac = <<>> /\ ~x.big

\* count < 1
BelowOne(x) == x.neg \/ (x.whole = 0 /\ ~x.big)

\* the val of a token
NoVal == [t |-> "undefined", s |-> <<>>, n |-> NaN]
StrVal(cs) == [t |-> "str", s |-> cs, n |-> NaN]
NumVal(x) == [t |-> "num", s |-> <<>>, n |-> x]

\* a Token of the tokenizer
SourceToken(type, offset, val) == [type |-> type, offset |-> offset, val |-> val]

NotRead == SourceToken("none", -1, NoVal)

Tokenizer(source) ==
    [source |-> source, length |-> Len(source), offset |-> -1, lastChar |-> "",
     token |-> NotRead]

\* the tokenizer where no source is read
NoTokenizer == Tokenizer(<<>>)

\* the tokenizer with its cursor at offset o
Seek(tk, o) ==
    [tk EXCEPT !.offset = o,
               !.lastChar = IF o < tk.length THEN tk.source[o + 1] ELSE "null"]

nextChar(tk) == Seek(tk, tk.offset + 1)

\* Where while (c = this.nextChar()) ends when it starts with the cursor
\* before offset o: at the first offset from o on whose character is in
\* the set (member) or not in it (~member), or where the character is null
StopOffset(source, o, set, member) ==
    LET hits == {i \in o..(Len(source) - 1) : (source[i + 1] \in set) = member}
    IN IF hits # {} THEN CHOOSE i \in hits : \A k \in hits : i <= k
       ELSE IF o < Len(source) THEN Len(source)
       ELSE o

\* nextChar() until the character is null or in stops
ReadUntil(tk, stops) == Seek(tk, StopOffset(tk.source, tk.offset + 1, stops, TRUE))

\* nextChar() until the character is null or not white space
skipWS(tk) == Seek(tk, StopOffset(tk.source, tk.offset + 1, WhiteSpace, FALSE))

skipToLineEnd(tk) == ReadUntil(tk, {"\r", "\n"})

Returns(tk, token) == [tk EXCEPT !.token = token]

invalid(source, tokenStart, tokenEnd) ==
    SourceToken("Invalid", tokenStart, StrVal(Substring(source, tokenStart, tokenEnd + 1)))

\* The mutant: any word of two characters or more is a Key.
WordToken_AnyWord(source, tokenStart, tokenEnd) ==
    LET token == Substring(source, tokenStart, tokenEnd)
    IN IF token = <<"T">> \/ token = <<"Y">>
       THEN SourceToken("String", tokenStart, StrVal(token))
       ELSE IF Len(token) < 2
       THEN invalid(source, tokenStart, tokenEnd)
       ELSE SourceToken("Key", tokenStart, StrVal(SubSeq(token, 1, Len(token) - 1)))

\* the token of the characters from tokenStart up to tokenEnd that begin
\* with a letter
WordToken(source, tokenStart, tokenEnd) ==
    LET token == Substring(source, tokenStart, tokenEnd)
    IN IF token = <<"T">> \/ token = <<"Y">>
       THEN SourceToken("String", tokenStart, StrVal(token))
       ELSE IF Len(token) < 2 \/ token[Len(token)] # ":"
       THEN invalid(source, tokenStart, tokenEnd)
       ELSE SourceToken("Key", tokenStart, StrVal(SubSeq(token, 1, Len(token) - 1)))

\* The mutant: a count only has to be a number.
CountToken_AnyNumber(source, tokenStart, tokenEnd) ==
    LET token == Substring(source, tokenStart, tokenEnd)
        count == parseFloat(Tail(token))
    IN IF Len(token) < 2 THEN invalid(source, tokenStart, tokenEnd)
       ELSE IF count.nan
       THEN invalid(source, tokenStart, tokenEnd)
       ELSE SourceToken("ArrayCount", tokenStart, NumVal(IntNumber(count.int32)))

\* the token of the characters from tokenStart up to tokenEnd that begin
\* with '*'
CountToken(source, tokenStart, tokenEnd) ==
    LET token == Substring(source, tokenStart, tokenEnd)
        count == parseFloat(Tail(token))
    IN IF Len(token) < 2 THEN invalid(source, tokenStart, tokenEnd)
       ELSE IF count.nan \/ ~IsInt32(count) \/ BelowOne(count)
       THEN invalid(source, tokenStart, tokenEnd)
       ELSE SourceToken("ArrayCount", tokenStart, NumVal(IntNumber(count.int32)))

\* the token of the characters that begin with '-' or a digit
NumberToken(source, tokenStart, tokenEnd) ==
    LET number == parseFloat(Substring(source, tokenStart, tokenEnd))
    IN IF number.nan THEN invalid(source, tokenStart, tokenEnd)
       ELSE SourceToken("Number", tokenStart, NumVal(number))

\* the token of the characters from tokenStart up to tokenEnd
TokenFrom(source, firstChar, tokenStart, tokenEnd) ==
    IF firstChar \in Letters THEN WordToken(source, tokenStart, tokenEnd)
    ELSE IF firstChar = "*" THEN CountToken(source, tokenStart, tokenEnd)
    ELSE IF firstChar = "-" \/ firstChar \in Digits
    THEN NumberToken(source, tokenStart, tokenEnd)
    ELSE invalid(source, tokenStart, tokenEnd)

\* the value of a set of one value: what is bound in the set is evaluated once
The(S) == CHOOSE x \in S : TRUE

\* The mutant: the cursor stays on the character that ended the token.
BareToken_NoRewind(tk, tokenStart) ==
    The({Returns(read, TokenFrom(tk.source, tk.lastChar, tokenStart, read.offset)) :
            read \in {ReadUntil(tk, BreakChars)}})

\* the last branch of nextToken(): the end of the token is found at a
\* break character, and the cursor is rewound by one position
BareToken(tk, tokenStart) ==
    The({Returns([read EXCEPT !.offset = @ - 1],
                 TokenFrom(tk.source, tk.lastChar, tokenStart, read.offset)) :
            read \in {ReadUntil(tk, BreakChars)}})

\* a string literal: up to the next quote or line end
StringEnd(read, source, tokenStart, tokenEnd) ==
    IF read.lastChar # "\""
    THEN Returns(read, invalid(source, tokenStart, tokenEnd))
    ELSE Returns(read, SourceToken("String", tokenStart,
                           StrVal(Substring(source, tokenStart + 1, tokenEnd))))

StringToken(tk, tokenStart) ==
    The({StringEnd(read, tk.source, tokenStart, read.offset) :
            read \in {ReadUntil(tk, {"\"", "\r", "\n"})}})

RECURSIVE nextToken(_)

\* nextToken() after its skipWS(), with tokenStart == t.offset
TokenAt(t, c) ==
    IF t.offset >= t.length
    THEN Returns([t EXCEPT !.offset = t.length], SourceToken("EOF", t.length, NoVal))
    ELSE IF c = ";" THEN nextToken(skipToLineEnd(t))
    ELSE IF c = "\"" THEN StringToken(t, t.offset)
    ELSE IF c = "," THEN Returns(t, SourceToken("Comma", t.offset, NoVal))
    ELSE IF c = "{" THEN Returns(t, SourceToken("OpenBlock", t.offset, NoVal))
    ELSE IF c = "}" THEN Returns(t, SourceToken("CloseBlock", t.offset, NoVal))
    ELSE BareToken(t, t.offset)

nextToken(tk) == The({TokenAt(t, t.lastChar) : t \in {skipWS(tk)}})

----------------------------------------------------------------------------
(* Strings, as far as the importer looks inside them *)

\* the characters of the file paths of the model
Chars(s) ==
    CASE s = "t.PNG" -> <<"t", ".", "P", "N", "G">>
      [] s = "t" -> <<"t">>
      [] OTHER -> <<>>

\* String.prototype.lastIndexOf, 0-based, -1 when absent
LastIndexOf(cs, ch) ==
    LET hits == {i \in 1..Len(cs) : cs[i] = ch}
    IN IF hits = {} THEN -1
       ELSE (CHOOSE i \in hits : \A j \in hits : j <= i) - 1

LowerChar(ch) ==
    CASE ch = "P" -> "p"
      [] ch = "N" -> "n"
      [] ch = "G" -> "g"
      [] OTHER -> ch

fileExtensionOfFilePath(filePath) ==
    LET cs == Chars(filePath)
        lastDot == LastIndexOf(cs, ".")
    IN IF lastDot > -1
       THEN LET ext == SubSeq(cs, lastDot + 2, Len(cs))
            IN [i \in 1..Len(ext) |-> LowerChar(ext[i])]
       ELSE <<>>

\* "" stands for a key the mapping does not have
mimeTypeMapping(ext) ==
    CASE ext = <<"b", "m">> -> "image/bmp"
      [] ext = <<"b", "m", "p">> -> "image/bmp"
      [] ext = <<"p", "n", "g">> -> "image/png"
      [] ext = <<"j", "p", "g">> -> "image/jpeg"
      [] ext = <<"j", "p", "e", "g">> -> "image/jpeg"
      [] ext = <<"g", "i", "f">> -> "image/gif"
      [] OTHER -> ""

\* mimeTypeMapping[ext] || null, with "" for null
mimeTypeForFilePath(filePath) == mimeTypeMapping(fileExtensionOfFilePath(filePath))

\* the part of "Class::name" after the "::"
AfterColons(s) ==
    CASE s = "Video::v" -> "v"
      [] s = "Texture::t" -> "t"
      [] s = "Material::m" -> "m"
      [] s = "Geometry::g" -> "g"
      [] s = "Model::o" -> "o"
      [] s = "Model::RootNode" -> "RootNode"
      [] OTHER -> ""

\* Number to property key and back: object keys are strings
NumberToString(n) ==
    CASE n = 0 -> "0" [] n = 1 -> "1" [] n = 2 -> "2" [] n = 3 -> "3"
      [] n = 4 -> "4" [] n = 5 -> "5" [] n = 6 -> "6"
      [] OTHER -> "?"

StringToNumber(s) ==
    CASE s = "0" -> 0 [] s = "1" -> 1 [] s = "2" -> 2 [] s = "3" -> 3
      [] s = "4" -> 4 [] s = "5" -> 5 [] s = "6" -> 6
      [] OTHER -> -1

\* v == n for a userRef v that is a number or a numeric string
LooseEq(v, n) ==
    IF v.t = "str" THEN StringToNumber(v.s) = n
    ELSE v.t = "num" /\ v.n = n

----------------------------------------------------------------------------
(* Node, Connection and FBXDocumentGraph.  Nodes the graph holds live in   *)
(* graph.nodes and are referred to by their position there (nid); 0 is no  *)
(* node.  A child node is held by value in its parent's children; ref      *)
(* tells the Node objects of one tree apart, and parent is <<>> for null   *)
(* or holds the ref of the parent.                                         *)

Node(name, values) ==
    [name |-> name, values |-> values, type |-> "Unknown", typeName |-> "",
     children |-> <<>>, parent |-> <<>>, ref |-> 0,
     connectionsIn |-> <<>>, connectionsOut |-> <<>>]

\* assert(node.parent == null, "Can't re-parent a Node")
CanAppend(child) == child.parent = <<>>

\* The mutant: the child is pushed and its parent is left as it was.
appendChild_KeepParent(node, child) == [node EXCEPT !.children = Append(@, child)]

appendChild(node, child) ==
    [node EXCEPT !.children = Append(@, [child EXCEPT !.parent = <<node.ref>>])]

RECURSIVE WithChildren(_, _)
WithChildren(node, children) ==
    IF children = <<>> THEN node
    ELSE WithChildren(appendChild(node, Head(children)), Tail(children))

objectName(node) == AfterColons(node.values[2].s)

\* cid numbers the Connection objects in the order they were made
Connection(cid, fromID, toID, propName) ==
    [cid |-> cid, fromID |-> fromID, toID |-> toID, propName |-> propName,
     fromNode |-> 0, toNode |-> 0]

\* an ObjectSet: ids to nids
Put(set, id, nid) ==
    [k \in DOMAIN set \cup {id} |-> IF k = id THEN nid ELSE set[k]]

Lookup(set, id) == IF id \in DOMAIN set THEN set[id] ELSE 0

\* the keys of an ObjectSet in the order for-in and Object.keys give them
RECURSIVE Ascending(_)
Ascending(S) ==
    IF S = {} THEN <<>>
    ELSE LET x == CHOOSE x \in S : \A y \in S : x <= y
         IN <<x>> \o Ascending(S \ {x})

GraphInit ==
    [nodes |-> <<Node("RootNode", <<Num(0), Str("Model::RootNode"), Str("RootNode")>>)>>,
     globals |-> <<>>,
     allObjects |-> (0 :> 1),
     geometryNodes |-> <<>>,
     videoNodes |-> <<>>,
     textureNodes |-> <<>>,
     materialNodes |-> <<>>,
     modelNodes |-> <<>>,
     connections |-> <<>>]

globalSetting(g, node) == [g EXCEPT !.globals = Append(@, node)]

\* "" stands for a class typeSetMap does not have
typeSetMap(name) ==
    CASE name = "Geometry" -> "geometryNodes"
      [] name = "Video" -> "videoNodes"
      [] name = "Texture" -> "textureNodes"
      [] name = "Material" -> "materialNodes"
      [] name = "Model" -> "modelNodes"
      [] OTHER -> ""

\* what a call on the graph gives: the graph after it, and whether it threw
GOk(g) == [g |-> g, threw |-> FALSE]
GThrow(g) == [g |-> g, threw |-> TRUE]

ValueAt(values, i) == IF i <= Len(values) THEN values[i] ELSE Undefined

addObject_KeepAll(g, node) ==
    LET id == ValueAt(node.values, 1).n
        set == typeSetMap(node.name)
        nid == Len(g.nodes) + 1
    IN IF set = "" THEN GThrow(g)
       ELSE GOk([g EXCEPT !.nodes = Append(@, node),
                          ![set] = Put(@, id, nid),
                          !.allObjects = Put(@, id, nid)])

addObject(g, node) ==
    LET id == ValueAt(node.values, 1).n
        subClass == ValueAt(node.values, 3)
        set == typeSetMap(node.name)
        nid == Len(g.nodes) + 1
    IN IF set = "" THEN GThrow(g)
       ELSE IF node.name = "Model" /\ subClass # Str("Mesh") THEN GOk(g)
       ELSE IF node.name = "Video" /\ subClass # Str("Clip") THEN GOk(g)
       ELSE GOk([g EXCEPT !.nodes = Append(@, node),
                          ![set] = Put(@, id, nid),
                          !.allObjects = Put(@, id, nid)])

PushOut(nodes, nid, c) ==
    IF nid = 0 THEN nodes
    ELSE [nodes EXCEPT ![nid].connectionsOut = Append(@, c)]

PushIn(nodes, nid, c) ==
    IF nid = 0 THEN nodes
    ELSE [nodes EXCEPT ![nid].connectionsIn = Append(@, c)]

addConnection_Either(g, conn) ==
    LET c == [conn EXCEPT !.fromNode = Lookup(g.allObjects, conn.fromID),
                          !.toNode = Lookup(g.allObjects, conn.toID)]
    IN IF c.fromNode # 0 \/ c.toNode # 0
       THEN [g EXCEPT !.nodes = PushIn(PushOut(@, c.fromNode, c), c.toNode, c),
                      !.connections = Append(@, c)]
       ELSE g

\* The mutant: only the node of fromID is tested.
addConnection_FromOnly(g, conn) ==
    LET c == [conn EXCEPT !.fromNode = Lookup(g.allObjects, conn.fromID),
                          !.toNode = Lookup(g.allObjects, conn.toID)]
    IN IF c.fromNode # 0
       THEN [g EXCEPT !.nodes = PushIn(PushOut(@, c.fromNode, c), c.toNode, c),
                      !.connections = Append(@, c)]
       ELSE g

\* The mutant: the connection is not pushed onto toNode.connectionsIn.
addConnection_OutOnly(g, conn) ==
    LET c == [conn EXCEPT !.fromNode = Lookup(g.allObjects, conn.fromID),
                          !.toNode = Lookup(g.allObjects, conn.toID)]
    IN IF c.fromNode # 0 /\ c.toNode # 0
       THEN [g EXCEPT !.nodes = PushOut(@, c.fromNode, c),
                      !.connections = Append(@, c)]
       ELSE g

addConnection(g, conn) ==
    LET c == [conn EXCEPT !.fromNode = Lookup(g.allObjects, conn.fromID),
                          !.toNode = Lookup(g.allObjects, conn.toID)]
    IN IF c.fromNode # 0 /\ c.toNode # 0
       THEN [g EXCEPT !.nodes = PushIn(PushOut(@, c.fromNode, c), c.toNode, c),
                      !.connections = Append(@, c)]
       ELSE g

----------------------------------------------------------------------------
(* The assets resolve() makes.  A group is null after a failed texture     *)
(* load; a texture slot is null for a texture that was allowed to miss.    *)

NullTex ==
    [null |-> TRUE, name |-> "", userRef |-> Null, useMipMaps |-> "No",
     filePath |-> Undefined, descriptor |-> FALSE]

NullMesh ==
    [null |-> TRUE, name |-> "", userRef |-> Null, positions |-> Null,
     streams |-> <<>>, meshData |-> <<>>]

\* new AssetGroup()
AssetGroup ==
    [null |-> FALSE, textures |-> <<>>, materials |-> <<>>, meshes |-> <<>>,
     models |-> <<>>]

NullGroup == [AssetGroup EXCEPT !.null = TRUE]

addTexture(group, tex) == [group EXCEPT !.textures = Append(@, tex)]
addMaterial(group, mat) == [group EXCEPT !.materials = Append(@, mat)]
addMesh(group, m) == [group EXCEPT !.meshes = Append(@, m)]
addModel(group, m) == [group EXCEPT !.models = Append(@, m)]

\* the last child of the node with this name, as the passes' loops over
\* children let a later child overwrite an earlier one; 0 when there is none
LastChild(node, name) ==
    LET hits == {i \in 1..Len(node.children) : node.children[i].name = name}
    IN IF hits = {} THEN 0 ELSE CHOOSE i \in hits : \A j \in hits : j <= i

\* v != 0
NotZero(v) ==
    CASE v.t = "num" -> v.n # 0
      [] v.t = "str" -> v.s \notin {"", "0"}
      [] OTHER -> TRUE

----------------------------------------------------------------------------
(* loadTextures(): the synchronous part makes one promise per Video node   *)

\* a promise of a texture: its state, the tex object its callbacks close
\* over, the value it is fulfilled with, and what it waits for
Promise(state, tex, value, via) ==
    [state |-> state, tex |-> tex, value |-> value, via |-> via]

VideoTex(g, vidID) ==
    LET fbxVideo == g.nodes[g.videoNodes[vidID]]
        mip == LastChild(fbxVideo, "UseMipMap")
        rel == LastChild(fbxVideo, "RelativeFilename")
    IN [null |-> FALSE,
        name |-> objectName(fbxVideo),
        userRef |-> Num(vidID),
        useMipMaps |-> IF mip # 0 /\ NotZero(ValueAt(fbxVideo.children[mip].values, 1))
                       THEN "Yes" ELSE "No",
        filePath |-> IF rel # 0 THEN ValueAt(fbxVideo.children[rel].values, 1)
                     ELSE Undefined,
        descriptor |-> FALSE]

VideoData(g, vidID) ==
    LET fbxVideo == g.nodes[g.videoNodes[vidID]]
        content == LastChild(fbxVideo, "Content")
    IN IF content # 0 THEN ValueAt(fbxVideo.children[content].values, 1)
       ELSE Null

\* The body of the forEach for one Video node.  A file path that is not a
\* string makes resolveRelativeFilePath throw out of loadTextures, and
\* makes mimeTypeForFilePath throw inside the promise executor, which
\* rejects the promise.
StartLoad(g, vidID, allowMissingTextures) ==
    LET tex == VideoTex(g, vidID)
        fileData == VideoData(g, vidID)
    IN IF Truthy(fileData)
       THEN [threw |-> FALSE,
             prom |-> IF tex.filePath.t # "str"
                      THEN Promise("rejected", tex, NullTex, "none")
                      ELSE IF mimeTypeForFilePath(tex.filePath.s) = ""
                      THEN IF allowMissingTextures
                           THEN Promise("fulfilled", tex, NullTex, "none")
                           ELSE Promise("rejected", tex, NullTex, "none")
                      ELSE Promise("pending", tex, NullTex, "loadImageFromBuffer")]
       ELSE IF tex.filePath.t # "str"
       THEN [threw |-> TRUE, prom |-> Promise("rejected", tex, NullTex, "none")]
       ELSE [threw |-> FALSE, prom |-> Promise("pending", tex, NullTex, "loadImage")]

RECURSIVE StartLoads(_, _, _)
StartLoads(g, ids, allowMissingTextures) ==
    IF ids = <<>> THEN [threw |-> FALSE, proms |-> <<>>]
    ELSE LET p == StartLoad(g, Head(ids), allowMissingTextures)
         IN IF p.threw THEN [threw |-> TRUE, proms |-> <<>>]
            ELSE LET rest == StartLoads(g, Tail(ids), allowMissingTextures)
                 IN [threw |-> rest.threw,
                     proms |-> IF rest.threw THEN <<>>
                               ELSE <<p.prom>> \o rest.proms]

\* the image of a pending promise loads (ok) or fails to
Settle(prom, ok, allowMissingTextures) ==
    IF ok
    THEN [prom EXCEPT !.state = "fulfilled",
                      !.tex.descriptor = TRUE,
                      !.value = [prom.tex EXCEPT !.descriptor = TRUE]]
    ELSE IF allowMissingTextures
    THEN [prom EXCEPT !.state = "fulfilled", !.value = NullTex]
    ELSE [prom EXCEPT !.state = "rejected"]

\* Promise.all(fileProms)
PromiseAll(proms) ==
    IF \E i \in 1..Len(proms) : proms[i].state = "rejected" THEN "rejected"
    ELSE IF \E i \in 1..Len(proms) : proms[i].state = "pending" THEN "pending"
    ELSE "fulfilled"

RECURSIVE AddTextures_SkipNull(_, _)
AddTextures_SkipNull(group, proms) ==
    IF proms = <<>> THEN group
    ELSE AddTextures_SkipNull(
            IF Head(proms).value.null THEN group
            ELSE addTexture(group, Head(proms).value),
            Tail(proms))

RECURSIVE AddTextures(_, _)
AddTextures(group, proms) ==
    IF proms = <<>> THEN group
    ELSE AddTextures(addTexture(group, Head(proms).value), Tail(proms))

\* the two handlers of Promise.all(fileProms).then
loadTexturesThen(group, proms) ==
    IF PromiseAll(proms) = "fulfilled" THEN AddTextures(group, proms)
    ELSE NullGroup

----------------------------------------------------------------------------
(* The build passes.  Each gives the group after it, or throws.            *)

POk(g, group) == [g |-> g, group |-> group, threw |-> FALSE, why |-> ""]
PThrow(g, group, why) == [g |-> g, group |-> group, threw |-> TRUE, why |-> why]

\* vec3.copy and vec2.copy of the first n values
Vec(values, n) == [i \in 1..n |-> ValueAt(values, i)]

ChildVec(node, name, n, default) ==
    LET i == LastChild(node, name)
    IN IF i = 0 THEN default ELSE Vec(node.children[i].values, n)

ChildValue(node, name, default) ==
    LET i == LastChild(node, name)
    IN IF i = 0 THEN default ELSE ValueAt(node.children[i].values, 1)

\* group.textures.find((t) => t && t.userRef == videoNodeID)
FindTexture(textures, videoNodeID) ==
    LET hits == {i \in 1..Len(textures) :
                    ~textures[i].null /\ LooseEq(textures[i].userRef, videoNodeID)}
    IN IF hits = {} THEN NullTex
       ELSE textures[CHOOSE i \in hits : \A j \in hits : i <= j]

\* fbxMat.connectionsIn[0]: the connection, and the graph after reading it
FirstConnection_Shift(g, nid) ==
    [g |-> [g EXCEPT !.nodes[nid].connectionsIn = Tail(@)],
     conn |-> g.nodes[nid].connectionsIn[1]]

FirstConnection(g, nid) == [g |-> g, conn |-> g.nodes[nid].connectionsIn[1]]

BuildMaterial(g0, group, matID) ==
    LET fbxMat == g0.nodes[g0.materialNodes[matID]]
        mat == [name |-> objectName(fbxMat),
                userRef |-> Str(NumberToString(matID)),
                diffuseColour |-> ChildVec(fbxMat, "DiffuseColor", 3, <<>>),
                specularColour |-> ChildVec(fbxMat, "SpecularColor", 3, <<>>),
                specularIntensity |-> ChildValue(fbxMat, "SpecularFactor", Undefined),
                specularExponent |-> ChildValue(fbxMat, "ShininessExponent", Undefined),
                diffuseTexture |-> NullTex,
                textureOffset |-> <<>>,
                textureScale |-> <<>>]
    IN IF Len(fbxMat.connectionsIn) > 0
       THEN LET first == FirstConnection(g0, g0.materialNodes[matID])
                g == first.g
                conn == first.conn IN
            IF conn.fromNode = 0 THEN PThrow(g, group, "fromNode is undefined")
            ELSE LET texNode == g.nodes[conn.fromNode] IN
            IF texNode.connectionsIn = <<>>
            THEN PThrow(g, group, "texNode.connectionsIn[0] is undefined")
            ELSE IF group.null THEN PThrow(g, group, "group is null")
            ELSE LET videoNodeID == texNode.connectionsIn[1].fromID
                     tex2D == FindTexture(group.textures, videoNodeID)
                 IN IF tex2D.null THEN POk(g, addMaterial(group, mat))
                    ELSE POk(g, addMaterial(group,
                           [mat EXCEPT
                              !.diffuseTexture = tex2D,
                              !.textureOffset = ChildVec(texNode, "ModelUVTranslation", 2, <<>>),
                              !.textureScale = ChildVec(texNode, "ModelUVScaling", 2, <<>>)]))
       ELSE IF group.null THEN PThrow(g0, group, "group is null")
       ELSE POk(g0, addMaterial(group, mat))

RECURSIVE buildMaterialsFrom(_, _)
buildMaterialsFrom(r, ids) ==
    IF ids = <<>> \/ r.threw THEN r
    ELSE buildMaterialsFrom(BuildMaterial(r.g, r.group, Head(ids)), Tail(ids))

buildMaterials(g, group) ==
    buildMaterialsFrom(POk(g, group), Ascending(DOMAIN g.materialNodes))

\* a mesh.VertexAttributeStream; controlsGrouping is FALSE where the code
\* leaves it undefined
NoStream ==
    [name |-> Str(""), role |-> "", field |-> "", includeInMesh |-> TRUE,
     controlsGrouping |-> FALSE, mapping |-> "Undefined",
     values |-> Undefined, indexes |-> Undefined]

SOk(stream) == [threw |-> FALSE, why |-> "", stream |-> stream]
SThrow(why) == [threw |-> TRUE, why |-> why, stream |-> NoStream]

\* the array key names and the attribute of a layer element; role "" for a
\* node that is not handled
LayerArrays(name) ==
    CASE name = "LayerElementNormal" ->
            [valueArrayName |-> "Normals", indexArrayName |-> "NormalsIndex",
             role |-> "Normal", field |-> "Floatx3"]
      [] name = "LayerElementColor" ->
            [valueArrayName |-> "Colors", indexArrayName |-> "ColorIndex",
             role |-> "Colour", field |-> "Floatx3"]
      [] name = "LayerElementUV" ->
            [valueArrayName |-> "UV", indexArrayName |-> "UVIndex",
             role |-> "UV", field |-> "Floatx2"]
      [] name = "LayerElementTangent" ->
            [valueArrayName |-> "Tangents", indexArrayName |-> "TangentsIndex",
             role |-> "Tangent", field |-> "Floatx4"]
      [] name = "LayerElementMaterial" ->
            [valueArrayName |-> "Materials", indexArrayName |-> "--UNUSED--",
             role |-> "Material", field |-> "SInt32"]
      [] OTHER ->
            [valueArrayName |-> "", indexArrayName |-> "", role |-> "", field |-> ""]

\* the VertexAttributeMapping of a mapping name, "" for an unknown name
MappingOf(mappingName) ==
    CASE mappingName = "ByVertice" -> "Vertex"
      [] mappingName = "ByPolygonVertex" -> "PolygonVertex"
      [] mappingName = "ByPolygon" -> "Polygon"
      [] mappingName = "AllSame" -> "SingleValue"
      [] OTHER -> ""

\* one turn of the loop over layerElemNode.children
ReadLayerChild(stream, keys, c) ==
    IF c.name = "Name" THEN SOk([stream EXCEPT !.name = ValueAt(c.values, 1)])
    ELSE IF c.name = "MappingInformationType"
    THEN IF ValueAt(c.values, 1).t # "str" \/ MappingOf(ValueAt(c.values, 1).s) = ""
         THEN SThrow("Unknown stream mapping name")
         ELSE SOk([stream EXCEPT !.mapping = MappingOf(ValueAt(c.values, 1).s)])
    ELSE IF c.name = keys.valueArrayName
    THEN SOk([stream EXCEPT !.values = ValueAt(c.values, 1)])
    ELSE IF c.name = keys.indexArrayName
    THEN SOk([stream EXCEPT !.indexes = ValueAt(c.values, 1)])
    ELSE SOk(stream)

\* the loop over layerElemNode.children
RECURSIVE ReadLayerChildren(_, _, _)
ReadLayerChildren(r, keys, children) ==
    IF children = <<>> \/ r.threw THEN r
    ELSE ReadLayerChildren(ReadLayerChild(r.stream, keys, Head(children)), keys,
                           Tail(children))

\* the stream as it is before the loop over the children
NewStream(keys) ==
    [NoStream EXCEPT !.role = keys.role, !.field = keys.field,
                     !.includeInMesh = keys.role # "Material",
                     !.controlsGrouping = keys.role = "Material"]

\* check material stream applicability
CheckMaterial(keys, r) ==
    IF r.threw THEN r
    ELSE IF keys.role = "Material" /\ r.stream.mapping \notin {"Polygon", "SingleValue"}
    THEN SThrow("A material stream must be a single value or be applied per polygon")
    ELSE r

ReadLayer(keys, children) ==
    IF keys.role = "" THEN SThrow("Unhandled layer element node")
    ELSE CheckMaterial(keys, ReadLayerChildren(SOk(NewStream(keys)), keys, children))

\* The mutant: a material stream is returned whatever its mapping.
makeLayerElementStream_AnyMapping(layerElemNode) ==
    ReadLayerChildren(SOk(NewStream(LayerArrays(layerElemNode.name))),
                      LayerArrays(layerElemNode.name), layerElemNode.children)

makeLayerElementStream(layerElemNode) ==
    ReadLayer(LayerArrays(layerElemNode.name), layerElemNode.children)

LayerElements ==
    {"LayerElementNormal", "LayerElementTangent", "LayerElementColor",
     "LayerElementUV", "LayerElementMaterial"}

\* sdMesh.streams.push(this.makeLayerElementStream(c))
PushStream(r, made) ==
    IF made.threw THEN [r EXCEPT !.threw = TRUE, !.why = made.why]
    ELSE [r EXCEPT !.streams = Append(@, made.stream)]

\* one turn of the loop over fbxGeom.children, for the streams
CollectStream(r, c) ==
    IF c.name \in LayerElements /\ LooseEq(ValueAt(c.values, 1), 0)
    THEN PushStream(r, makeLayerElementStream(c))
    ELSE r

\* the streams of the layer elements with index 0 among the children of a
\* Geometry, as [threw, why, streams]
RECURSIVE CollectStreams(_, _)
CollectStreams(r, children) ==
    IF children = <<>> \/ r.threw THEN r
    ELSE CollectStreams(CollectStream(r, Head(children)), Tail(children))

\* The scan without "next polygon": the two arrays are never emptied
RECURSIVE ScanPolygons_NoReset(_, _, _, _)
ScanPolygons_NoReset(indexes, pvi, cur, done) ==
    IF pvi >= Len(indexes) THEN done
    ELSE LET vi == indexes[pvi + 1]
             pvis == Append(cur[1], pvi)
         IN IF vi < 0
            THEN ScanPolygons_NoReset(indexes, pvi + 1, <<pvis, Append(cur[2], -vi - 1)>>,
                              Append(done, <<pvis, Append(cur[2], -vi - 1)>>))
            ELSE ScanPolygons_NoReset(indexes, pvi + 1, <<pvis, Append(cur[2], vi)>>, done)

\* The linear scan through the polygon indexes: pvi counts from 0, cur is
\* the polygon being collected, as <<polygonVertexIndexArray, vertexIndexArray>>
RECURSIVE ScanPolygons(_, _, _, _)
ScanPolygons(indexes, pvi, cur, done) ==
    IF pvi >= Len(indexes) THEN done
    ELSE LET vi == indexes[pvi + 1]
             pvis == Append(cur[1], pvi)
         IN IF vi < 0
            THEN ScanPolygons(indexes, pvi + 1, <<<<>>, <<>>>>,
                              Append(done, <<pvis, Append(cur[2], -vi - 1)>>))
            ELSE ScanPolygons(indexes, pvi + 1, <<pvis, Append(cur[2], vi)>>, done)

BuildMesh(g, group, geomID) ==
    LET fbxGeom == g.nodes[g.geometryNodes[geomID]]
        polygonIndexes == ChildValue(fbxGeom, "PolygonVertexIndex", Null)
        collected == CollectStreams([threw |-> FALSE, why |-> "", streams |-> <<>>],
                                    fbxGeom.children)
        sdMesh == [null |-> FALSE,
                   name |-> objectName(fbxGeom),
                   userRef |-> ValueAt(fbxGeom.values, 1),
                   positions |-> ChildValue(fbxGeom, "Vertices", Null),
                   streams |-> collected.streams,
                   meshData |-> <<>>]
    IN IF collected.threw THEN PThrow(g, group, collected.why)
       ELSE IF polygonIndexes.t \in {"null", "undefined"}
       THEN PThrow(g, group, "polygonIndexes is null")
       ELSE IF group.null THEN PThrow(g, group, "group is null")
       ELSE POk(g, addMesh(group,
                [sdMesh EXCEPT !.meshData =
                    ScanPolygons(polygonIndexes.a, 0, <<<<>>, <<>>>>, <<>>)]))

RECURSIVE buildMeshesFrom(_, _)
buildMeshesFrom(r, ids) ==
    IF ids = <<>> \/ r.threw THEN r
    ELSE buildMeshesFrom(BuildMesh(r.g, r.group, Head(ids)), Tail(ids))

buildMeshes(g, group) ==
    buildMeshesFrom(POk(g, group), Ascending(DOMAIN g.geometryNodes))

\* group.meshes.find((t) => t && t.userRef == conn.fromID)
FindMesh(meshes, id) ==
    LET hits == {i \in 1..Len(meshes) : LooseEq(meshes[i].userRef, id)}
    IN IF hits = {} THEN NullMesh
       ELSE meshes[CHOOSE i \in hits : \A j \in hits : i <= j]

\* the index in group.materials that find gives for this id, 0 for none
FindMaterial(materials, id) ==
    LET hits == {i \in 1..Len(materials) : LooseEq(materials[i].userRef, id)}
    IN IF hits = {} THEN 0 ELSE CHOOSE i \in hits : \A j \in hits : i <= j

\* The mutant: a material found goes to the front of the list.
\* the loop over fbxModel.connectionsIn, from connection i on
RECURSIVE ConnectModel_Prepend(_, _, _, _, _)
ConnectModel_Prepend(g, group, sdModel, conns, i) ==
    IF i > Len(conns) THEN [model |-> sdModel, threw |-> FALSE, why |-> ""]
    ELSE LET conn == conns[i] IN
         IF conn.fromNode = 0
         THEN [model |-> sdModel, threw |-> TRUE, why |-> "fromNode is undefined"]
         ELSE LET connType == g.nodes[conn.fromNode].name IN
         IF connType \in {"Geometry", "Material"} /\ group.null
         THEN [model |-> sdModel, threw |-> TRUE, why |-> "group is null"]
         ELSE IF connType = "Geometry"
         THEN LET geom == FindMesh(group.meshes, conn.fromID)
              IN ConnectModel_Prepend(g, group,
                    IF geom.null THEN sdModel ELSE [sdModel EXCEPT !.mesh = geom],
                    conns, i + 1)
         ELSE IF connType = "Material"
         THEN LET mat == FindMaterial(group.materials, conn.fromID)
              IN ConnectModel_Prepend(g, group,
                    IF mat = 0 THEN sdModel
                    ELSE [sdModel EXCEPT !.materials = <<group.materials[mat]>> \o @],
                    conns, i + 1)
         ELSE ConnectModel_Prepend(g, group, sdModel, conns, i + 1)

\* the loop over fbxModel.connectionsIn, from connection i on
RECURSIVE ConnectModel(_, _, _, _, _)
ConnectModel(g, group, sdModel, conns, i) ==
    IF i > Len(conns) THEN [model |-> sdModel, threw |-> FALSE, why |-> ""]
    ELSE LET conn == conns[i] IN
         IF conn.fromNode = 0
         THEN [model |-> sdModel, threw |-> TRUE, why |-> "fromNode is undefined"]
         ELSE LET connType == g.nodes[conn.fromNode].name IN
         IF connType \in {"Geometry", "Material"} /\ group.null
         THEN [model |-> sdModel, threw |-> TRUE, why |-> "group is null"]
         ELSE IF connType = "Geometry"
         THEN LET geom == FindMesh(group.meshes, conn.fromID)
              IN ConnectModel(g, group,
                    IF geom.null THEN sdModel ELSE [sdModel EXCEPT !.mesh = geom],
                    conns, i + 1)
         ELSE IF connType = "Material"
         THEN LET mat == FindMaterial(group.materials, conn.fromID)
              IN ConnectModel(g, group,
                    IF mat = 0 THEN sdModel
                    ELSE [sdModel EXCEPT !.materials = Append(@, group.materials[mat])],
                    conns, i + 1)
         ELSE ConnectModel(g, group, sdModel, conns, i + 1)

\* quat.fromEuler(deg2rad(v[2]), deg2rad(v[1]), deg2rad(v[0])), kept as the
\* three angles in the order they are passed
EulerZYX(vecVal) == <<ValueAt(vecVal, 3), ValueAt(vecVal, 2), ValueAt(vecVal, 1)>>

BuildModel(g, group, modelID) ==
    LET fbxModel == g.nodes[g.modelNodes[modelID]]
        rot == LastChild(fbxModel, "Lcl Rotation")
        sdModel == [name |-> objectName(fbxModel),
                    userRef |-> ValueAt(fbxModel.values, 1),
                    mesh |-> NullMesh,
                    materials |-> <<>>,
                    position |-> ChildVec(fbxModel, "Lcl Translation", 3,
                                          <<Num(0), Num(0), Num(0)>>),
                    rotation |-> IF rot = 0 THEN <<Num(0), Num(0), Num(0), Num(1)>>
                                 ELSE EulerZYX(fbxModel.children[rot].values),
                    scale |-> ChildVec(fbxModel, "Lcl Scaling", 3,
                                       <<Num(1), Num(1), Num(1)>>)]
        r == ConnectModel(g, group, sdModel, fbxModel.connectionsIn, 1)
    IN IF r.threw THEN PThrow(g, group, r.why)
       ELSE IF group.null THEN PThrow(g, group, "group is null")
       ELSE POk(g, addModel(group, r.model))

RECURSIVE buildModelsFrom(_, _)
buildModelsFrom(r, ids) ==
    IF ids = <<>> \/ r.threw THEN r
    ELSE buildModelsFrom(BuildModel(r.g, r.group, Head(ids)), Tail(ids))

buildModels(g, group) ==
    buildModelsFrom(POk(g, group), Ascending(DOMAIN g.modelNodes))

\* the handler resolve() chains on loadTextures
resolveThen(g, group) ==
    LET r1 == buildMaterials(g, group) IN
    IF r1.threw THEN r1
    ELSE LET r2 == buildMeshes(r1.g, r1.group) IN
    IF r2.threw THEN r2
    ELSE buildModels(r2.g, r2.group)

----------------------------------------------------------------------------
(* The calls made on a document graph: the builder's, then resolve()       *)

ObjectIds == {1, 2}
ConnIds == {0} \cup ObjectIds

ClassString(class) ==
    CASE class = "Video" -> "Video::v"
      [] class = "Texture" -> "Texture::t"
      [] class = "Material" -> "Material::m"
      [] class = "Geometry" -> "Geometry::g"
      [] class = "Model" -> "Model::o"
      [] OTHER -> "Deformer::d"

\* the node the builder hands to addObject at the end of an object's block
ObjectNode(class, id, subClass, children) ==
    WithChildren(Node(class, <<Num(id), Str(ClassString(class)), Str(subClass)>>),
                 children)

RelativeFilename(path) == Node("RelativeFilename", <<Str(path)>>)
Content == Node("Content", <<Str("data")>>)

VideoChildren ==
    {<<>>,
     <<RelativeFilename("t.PNG")>>,
     <<Content>>,
     <<RelativeFilename("t.PNG"), Content>>,
     <<RelativeFilename("t"), Content>>}

GeometryChildren ==
    {<<>>,
     <<Node("Vertices", <<Arr("Float64", <<0, 0, 0>>)>>),
       Node("PolygonVertexIndex", <<Arr("Int32", <<0, 1, -3>>)>>)>>}

ObjectNodes ==
    {ObjectNode("Video", id, "Clip", ch) : id \in ObjectIds, ch \in VideoChildren}
    \cup {ObjectNode("Video", id, "", <<RelativeFilename("t.PNG")>>) : id \in ObjectIds}
    \cup {ObjectNode("Geometry", id, "Mesh", ch) : id \in ObjectIds, ch \in GeometryChildren}
    \cup {ObjectNode(class, id, "", <<>>) :
             class \in {"Texture", "Material"}, id \in ObjectIds}
    \cup {ObjectNode("Model", id, sub, <<>>) :
             id \in ObjectIds, sub \in {"Mesh", "Light"}}
    \cup {ObjectNode("Deformer", 1, "Skin", <<>>)}

\* resolve(options): no options, or allowMissingTextures given
ResolveOptions == {<<>>, <<TRUE>>, <<FALSE>>}

\* defaults after copyValues(defaults, options || {})
AllowMissingTextures(options) == IF options = <<>> THEN TRUE ELSE options[1]

Settled == {"fulfilled", "rejected", "threw"}

\* order: the promises whose load has completed, in the order they did
RsInit ==
    [pc |-> "idle", runs |-> 0, allow |-> TRUE, proms |-> <<>>, order |-> <<>>,
     group |-> NullGroup, why |-> ""]

\* What the calls so far were, told from their arguments and the graph they
\* were made on: the latest builder call, the Connection objects whose
\* endpoints were missing, and how the first resolve() ended.
GgInit ==
    [last |-> [op |-> "none", case |-> "none", threw |-> FALSE],
     dropped |-> {},
     first |-> RsInit]

ObjectCase(node) ==
    IF typeSetMap(node.name) = "" THEN "unknown"
    ELSE IF node.name = "Model" /\ ValueAt(node.values, 3) # Str("Mesh") THEN "filtered"
    ELSE IF node.name = "Video" /\ ValueAt(node.values, 3) # Str("Clip") THEN "filtered"
    ELSE "kept"

Dangling(g, conn) ==
    conn.fromID \notin DOMAIN g.allObjects \/ conn.toID \notin DOMAIN g.allObjects

Building == rs.pc = "idle" /\ rs.runs = 0

\* the Connection objects made so far, kept or not
NumConns == Len(graph.connections) + Cardinality(gg.dropped)

\* globalSetting touches nothing the other calls read or write: the model
\* makes these calls first
GlobalSetting ==
    /\ Building
    /\ Len(graph.globals) < MaxGlobals
    /\ Len(graph.nodes) = 1 /\ NumConns = 0
    /\ graph' = globalSetting(graph, Node("UpAxis", <<Num(1)>>))
    /\ gg' = [gg EXCEPT !.last = [op |-> "globalSetting", case |-> "kept",
                                  threw |-> FALSE]]
    /\ UNCHANGED <<rs, parser, pc, out, delegate, ghost, builder, tokenizer>>

AddObject ==
    /\ Building
    /\ Len(graph.nodes) - 1 < MaxObjects
    /\ \E node \in ObjectNodes :
          LET r == addObject(graph, node) IN
          /\ graph' = r.g
          /\ gg' = [gg EXCEPT !.last = [op |-> "addObject", case |-> ObjectCase(node),
                                        threw |-> r.threw]]
    /\ UNCHANGED <<rs, parser, pc, out, delegate, ghost, builder, tokenizer>>

AddConnection ==
    /\ Building
    /\ NumConns < MaxConns
    /\ \E fromID \in ConnIds, toID \in ConnIds :
          LET conn == Connection(NumConns + 1, fromID, toID, Undefined) IN
          /\ graph' = addConnection(graph, conn)
          /\ gg' = [gg EXCEPT !.last = [op |-> "addConnection",
                                        case |-> IF Dangling(graph, conn)
                                                 THEN "dangling" ELSE "kept",
                                        threw |-> FALSE],
                              !.dropped = IF Dangling(graph, conn)
                                          THEN @ \cup {conn.cid} ELSE @]
    /\ UNCHANGED <<rs, parser, pc, out, delegate, ghost, builder, tokenizer>>

\* resolve(options) up to the point where it returns its promise, or throws
ResolveCall ==
    /\ rs.pc \in {"idle"} \cup Settled
    /\ rs.runs < MaxResolves
    /\ \E options \in ResolveOptions :
          LET allow == AllowMissingTextures(options)
              l == StartLoads(graph, Ascending(DOMAIN graph.videoNodes), allow)
          IN rs' = [pc |-> IF l.threw THEN "threw" ELSE "loading",
                    runs |-> rs.runs + 1,
                    allow |-> allow,
                    proms |-> l.proms,
                    order |-> <<>>,
                    group |-> NullGroup,
                    why |-> IF l.threw THEN "relPath is undefined" ELSE ""]
    /\ gg' = [gg EXCEPT !.last = GgInit.last,
                        !.first = IF rs.runs = 1 THEN rs ELSE @]
    /\ UNCHANGED <<graph, parser, pc, out, delegate, ghost, builder, tokenizer>>

\* An image loads, or fails to.  Once Promise.all is settled nothing reads
\* the promises any more, and the handlers that follow run as consecutive
\* microtasks, so the loads still pending then are left as they are.
LoadSettles ==
    /\ rs.pc = "loading"
    /\ \E i \in 1..Len(rs.proms), ok \in BOOLEAN :
          /\ rs.proms[i].state = "pending"
          /\ rs' = [rs EXCEPT !.proms[i] = Settle(@, ok, rs.allow),
                              !.order = Append(@, i)]
    /\ UNCHANGED <<graph, gg, parser, pc, out, delegate, ghost, builder, tokenizer>>

\* Promise.all(fileProms) is settled: loadTextures' handlers run
LoadTexturesThen ==
    /\ rs.pc = "loading"
    /\ PromiseAll(rs.proms) # "pending"
    /\ rs' = [rs EXCEPT !.pc = "textured",
                        !.group = loadTexturesThen(AssetGroup, rs.proms)]
    /\ UNCHANGED <<graph, gg, parser, pc, out, delegate, ghost, builder, tokenizer>>

\* resolve()'s handler runs the three passes
ResolveThen ==
    /\ rs.pc = "textured"
    /\ LET r == resolveThen(graph, rs.group) IN
          /\ graph' = r.g
          /\ rs' = [rs EXCEPT !.pc = IF r.threw THEN "rejected" ELSE "fulfilled",
                              !.group = r.group,
                              !.why = r.why]
    /\ UNCHANGED <<gg, parser, pc, out, delegate, ghost, builder, tokenizer>>

----------------------------------------------------------------------------
(* FBX7DocumentParser: the delegate that builds the document graph.  The   *)
(* node curNodeParent refers to is given by its path from curObject: the   *)
(* positions to follow through children.  curObject is <<>> for null.      *)

MaxBuilderDepth == 3  \* blocks the builder has entered and not left
MaxChildren == 2      \* nodes below the object being built
MaxBuilt == 1         \* objects the builder adds to the graph
MaxMade == 1         \* Connection objects the builder makes

NoParent == [null |-> TRUE, path |-> <<>>]
NoCall ==
    [op |-> "none", name |-> "", values |-> <<>>, ret |-> "", added |-> FALSE,
     made |-> <<>>, why |-> ""]

\* last, turn: the latest callback, what it answered, whether it called
\* addObject, the Connection objects it made; turn flips at every callback
BuilderInit ==
    [state |-> "Root", depth |-> 0, curObject |-> <<>>, curNodeParent |-> NoParent,
     threw |-> FALSE, last |-> NoCall, turn |-> 0]

knownObjects == {"Geometry", "Video", "Texture", "Material", "Model"}

TypedNode(name, values, type, typeName) ==
    [Node(name, values) EXCEPT !.type = type, !.typeName = typeName]

RECURSIVE NodeAt(_, _)
NodeAt(node, path) ==
    IF path = <<>> THEN node ELSE NodeAt(node.children[Head(path)], Tail(path))

\* the node at the path appends the child
RECURSIVE AppendAt(_, _, _)
AppendAt(node, path, child) ==
    IF path = <<>> THEN appendChild(node, child)
    ELSE [node EXCEPT !.children[Head(path)] = AppendAt(@, Tail(path), child)]

RECURSIVE CountNodes(_)
CountNodes(node) ==
    LET RECURSIVE Sum(_)
        Sum(i) == IF i > Len(node.children) THEN 0
                  ELSE CountNodes(node.children[i]) + Sum(i + 1)
    IN 1 + Sum(1)

\* new Node(...) while an object is built: an object of its own, told from
\* those of the tree by its ref
NewIn(tree, node) ==
    [node EXCEPT !.ref = IF tree = <<>> THEN 1 ELSE CountNodes(tree[1]) + 1]

\* the outcome of a callback: the builder and the graph after it, what it
\* returned, whether it called addObject, whether an exception escaped;
\* made: the Connection objects it made
\* why: the message of the assertion that failed
BOk(b, g, ret) ==
    [b |-> b, g |-> g, ret |-> ret, added |-> FALSE, made |-> <<>>, threw |-> FALSE,
     why |-> ""]
BThrow(b, g) == [BOk(b, g, "") EXCEPT !.threw = TRUE]
BAssert(b, g, why) == [BThrow(b, g) EXCEPT !.why = why]

\* The mutant: every block below Objects starts an object.
block_AnyObject(b, g, name, values) ==
    LET entered == [b EXCEPT !.depth = @ + 1] IN
    IF b.state = "Root"
    THEN IF name = "GlobalSettings"
         THEN BOk([entered EXCEPT !.state = "GlobalSettings"], g, "Enter")
         ELSE IF name = "Objects"
         THEN BOk([entered EXCEPT !.state = "Objects"], g, "Enter")
         ELSE IF name = "Connections"
         THEN BOk([entered EXCEPT !.state = "Connections"], g, "Enter")
         ELSE BOk(b, g, "Skip")
    ELSE IF b.state = "Objects"
    THEN BOk([entered EXCEPT !.state = "Object",
                             !.curObject = <<NewIn(<<>>, Node(name, values))>>,
                             !.curNodeParent = [null |-> FALSE, path |-> <<>>]],
             g, "Enter")
    ELSE IF ~b.curNodeParent.null
    THEN LET path == b.curNodeParent.path
             at == Len(NodeAt(b.curObject[1], path).children) + 1
             node == NewIn(b.curObject, Node(name, values))
         IN IF ~CanAppend(node) THEN BAssert(b, g, "Can't re-parent a Node")
            ELSE BOk([entered EXCEPT
                        !.curObject = <<AppendAt(b.curObject[1], path, node)>>,
                        !.curNodeParent = [null |-> FALSE, path |-> Append(path, at)]],
                     g, "Enter")
    ELSE BOk(entered, g, "Enter")

block(b, g, name, values) ==
    LET entered == [b EXCEPT !.depth = @ + 1] IN
    IF b.state = "Root"
    THEN IF name = "GlobalSettings"
         THEN BOk([entered EXCEPT !.state = "GlobalSettings"], g, "Enter")
         ELSE IF name = "Objects"
         THEN BOk([entered EXCEPT !.state = "Objects"], g, "Enter")
         ELSE IF name = "Connections"
         THEN BOk([entered EXCEPT !.state = "Connections"], g, "Enter")
         ELSE BOk(b, g, "Skip")
    ELSE IF b.state = "Objects"
    THEN IF name \in knownObjects
         THEN BOk([entered EXCEPT !.state = "Object",
                                  !.curObject = <<NewIn(<<>>, Node(name, values))>>,
                                  !.curNodeParent = [null |-> FALSE, path |-> <<>>]],
                  g, "Enter")
         ELSE BOk(b, g, "Skip")
    ELSE IF ~b.curNodeParent.null
    THEN LET path == b.curNodeParent.path
             at == Len(NodeAt(b.curObject[1], path).children) + 1
             node == NewIn(b.curObject, Node(name, values))
         IN IF ~CanAppend(node) THEN BAssert(b, g, "Can't re-parent a Node")
            ELSE BOk([entered EXCEPT
                        !.curObject = <<AppendAt(b.curObject[1], path, node)>>,
                        !.curNodeParent = [null |-> FALSE, path |-> Append(path, at)]],
                     g, "Enter")
    ELSE BOk(entered, g, "Enter")

\* if (this.state = BuilderState.Object) assigns: the test is always true
endBlock(b, g) ==
    LET left == [b EXCEPT !.depth = @ - 1] IN
    IF left.depth = 1
    THEN LET assigned == [left EXCEPT !.state = "Object"] IN
         IF b.curObject = <<>>
         THEN [BThrow(assigned, g) EXCEPT !.added = TRUE]  \* node.values of null
         ELSE LET r == addObject(g, b.curObject[1]) IN
              IF r.threw THEN [BThrow(assigned, g) EXCEPT !.added = TRUE]
              ELSE [BOk([assigned EXCEPT !.curObject = <<>>,
                                         !.curNodeParent = NoParent,
                                         !.state = "Objects"], r.g, "")
                      EXCEPT !.added = TRUE]
    ELSE IF left.depth = 0
    THEN BOk([left EXCEPT !.state = "Root"], g, "")
    ELSE IF ~b.curNodeParent.null
    THEN IF b.curNodeParent.path = <<>>
         THEN BAssert([left EXCEPT !.curNodeParent = NoParent], g, "assert")
         ELSE BOk([left EXCEPT !.curNodeParent.path = SubSeq(@, 1, Len(@) - 1)], g, "")
    ELSE BOk(left, g, "")

\* The mutant: the property name of an OP binding is left out.
typedProperty_NoPropName(b, g, cid, name, type, typeName, values) ==
    LET node == NewIn(b.curObject, TypedNode(name, values, type, typeName)) IN
    IF b.state = "GlobalSettings"
    THEN BOk(b, globalSetting(g, node), "")
    ELSE IF b.state = "Object"
    THEN IF b.curNodeParent.null THEN BThrow(b, g)
         ELSE IF ~CanAppend(node) THEN BAssert(b, g, "Can't re-parent a Node")
         ELSE BOk([b EXCEPT !.curObject =
                      <<AppendAt(b.curObject[1], b.curNodeParent.path, node)>>], g, "")
    ELSE IF b.state = "Connections"
    THEN IF name # "C"
         THEN BAssert(b, g, "Only C properties are allowed inside Connections")
         ELSE LET binding == ValueAt(values, 1)
                  fromID == ValueAt(values, 2).n
                  toID == ValueAt(values, 3).n
                  conn == Connection(cid, fromID, toID,
                                     Undefined)
              IN IF binding = Str("OO") \/ binding = Str("OP")
                 THEN [BOk(b, addConnection(g, conn), "") EXCEPT !.made = <<conn>>]
                 ELSE BOk(b, g, "")
    ELSE BOk(b, g, "")

\* cid: the number of the Connection object, should one be made
typedProperty(b, g, cid, name, type, typeName, values) ==
    LET node == NewIn(b.curObject, TypedNode(name, values, type, typeName)) IN
    IF b.state = "GlobalSettings"
    THEN BOk(b, globalSetting(g, node), "")
    ELSE IF b.state = "Object"
    THEN IF b.curNodeParent.null THEN BThrow(b, g)
         ELSE IF ~CanAppend(node) THEN BAssert(b, g, "Can't re-parent a Node")
         ELSE BOk([b EXCEPT !.curObject =
                      <<AppendAt(b.curObject[1], b.curNodeParent.path, node)>>], g, "")
    ELSE IF b.state = "Connections"
    THEN IF name # "C"
         THEN BAssert(b, g, "Only C properties are allowed inside Connections")
         ELSE LET binding == ValueAt(values, 1)
                  fromID == ValueAt(values, 2).n
                  toID == ValueAt(values, 3).n
                  conn == Connection(cid, fromID, toID,
                                     IF binding = Str("OP") THEN ValueAt(values, 4)
                                     ELSE Undefined)
              IN IF binding = Str("OO") \/ binding = Str("OP")
                 THEN [BOk(b, addConnection(g, conn), "") EXCEPT !.made = <<conn>>]
                 ELSE BOk(b, g, "")
    ELSE BOk(b, g, "")

property(b, g, cid, name, values) ==
    typedProperty(b, g, cid, name, "Unknown", "", values)

----------------------------------------------------------------------------
(* The callbacks a parser makes on a new FBX7DocumentParser *)

\* block() looks at the name in the states Root and Objects only
BlockNames(state) ==
    IF state \in {"Root", "Objects"}
    THEN {"GlobalSettings", "Objects", "Connections", "Other"} \cup knownObjects
    ELSE {"Other"}

BlockValues(name) ==
    IF name \in knownObjects
    THEN <<Num(1), Str(ClassString(name)), Str(IF name = "Video" THEN "Clip" ELSE "Mesh")>>
    ELSE <<>>

Properties ==
    {[name |-> "C", values |-> <<Str("OO"), Num(1), Num(0)>>],
     [name |-> "C", values |-> <<Str("OP"), Num(2), Num(1), Str("DiffuseColor")>>],
     [name |-> "C", values |-> <<Str("PP"), Num(1), Num(0)>>]}

TypedProperties ==
    {[name |-> "UpAxis", type |-> "Int", typeName |-> "int", values |-> <<Num(1)>>]}

\* r: the outcome of the callback op
Called(op, name, values, r) ==
    /\ builder' = [r.b EXCEPT !.threw = r.threw,
                              !.last = [op |-> op, name |-> name, values |-> values,
                                        ret |-> r.ret, added |-> r.added,
                                        made |-> r.made, why |-> r.why],
                              !.turn = 1 - @]
    /\ graph' = r.g
    /\ gg' = [gg EXCEPT !.dropped =
                @ \cup {r.made[i].cid : i \in {j \in 1..Len(r.made) :
                                                 Dangling(graph, r.made[j])}}]
    /\ UNCHANGED <<rs, pvars, tvars>>

\* what a callback may add stays within the bounds of the graph
Room ==
    /\ builder.state = "GlobalSettings" => Len(graph.globals) < MaxGlobals
    /\ builder.state = "Object" => CountNodes(builder.curObject[1]) - 1 < MaxChildren
    /\ builder.state = "Connections" => NumConns < MaxMade

BuilderBlock ==
    /\ ~builder.threw
    /\ builder.depth < MaxBuilderDepth
    /\ builder.state = "Objects" => Len(graph.nodes) - 1 < MaxBuilt
    /\ builder.state = "Object" => CountNodes(builder.curObject[1]) - 1 < MaxChildren
    /\ \E name \in BlockNames(builder.state) :
          Called("block", name, BlockValues(name),
                 block(builder, graph, name, BlockValues(name)))

\* the parser ends the blocks the builder has entered
BuilderEndBlock ==
    /\ ~builder.threw
    /\ builder.depth > 0
    /\ Called("endBlock", "", <<>>, endBlock(builder, graph))

BuilderProperty ==
    /\ ~builder.threw
    /\ Room
    /\ \E p \in Properties :
          Called("property", p.name, p.values,
                 property(builder, graph, NumConns + 1, p.name, p.values))

BuilderTypedProperty ==
    /\ ~builder.threw
    /\ Room
    /\ \E p \in TypedProperties :
          Called("typedProperty", p.name, p.values,
                 typedProperty(builder, graph, NumConns + 1, p.name, p.type,
                               p.typeName, p.values))

InitParse ==
    /\ parser = ParserInit
    /\ pc = "parsing"
    /\ out = <<>>
    /\ delegate = DelegateInit
    /\ ghost = GhostInit
    /\ builder = BuilderInit
    /\ tokenizer = NoTokenizer
    /\ graph = GraphInit
    /\ rs = RsInit
    /\ gg = GgInit

NextParse ==
    \/ OnKey
    \/ OnValue
    \/ OnArrayCount
    \/ OnOpenBlock
    \/ OnCloseBlock
    \/ OnComma
    \/ OnInvalid
    \/ OnEOF

SpecParse == InitParse /\ [][NextParse]_vars

----------------------------------------------------------------------------
(* Arrays: inputs made of array-bearing keys, ArrayCounts, blocks, numbers  *)
(* and commas.  The keys are the names arrayForKey knows, one it does not   *)
(* know and the wrapper key a; a named key opens the input or follows a     *)
(* brace.                                                                   *)

ArrayKeyNames == Int32Keys \cup Float32Keys \cup Float64Keys \cup {"Other", "a"}
ArrayNumberVals == {1, 2}

OnArrayKey ==
    /\ pc = "parsing"
    /\ \E k \in ArrayKeyNames :
          LET t == Token("Key", Str(k), 0) IN
          /\ k # "a" => ghost.lastType \in {"none", "OpenBlock", "CloseBlock"}
          /\ Step(KeyCase(parser, t), GhostKey(ghost, t), t)

OnNumber ==
    /\ pc = "parsing"
    /\ Len(parser.values_) < MaxValues
    /\ \E k \in ArrayNumberVals :
          LET t == Token("Number", Num(k), 0)
          IN Step(ValueCase(parser, t), GhostOther(ghost, t), t)

NextArray ==
    \/ OnArrayKey
    \/ OnArrayCount
    \/ OnOpenBlock
    \/ OnNumber
    \/ OnComma
    \/ OnCloseBlock

SpecArray == InitParse /\ [][NextArray]_vars

----------------------------------------------------------------------------
(* Properties: inputs made of the keys Properties70, P and Other, blocks,   *)
(* commas and values that are a type name the table knows in another case, *)
(* a name it does not know, and a number.                                   *)

MaxPropValues == 6    \* pending values of one key, the key included
PropKeyNames == {"Properties70", "P", "Other"}
PropVals == {Str("Int"), Str("zz"), Num(1)}

OnPropKey ==
    /\ pc = "parsing"
    /\ \E k \in PropKeyNames :
          LET t == Token("Key", Str(k), 0)
          IN Step(KeyCase(parser, t), GhostKey(ghost, t), t)

OnPropValue ==
    /\ pc = "parsing"
    /\ Len(parser.values_) < MaxPropValues
    /\ \E v \in PropVals :
          LET t == Token(IF v.t = "num" THEN "Number" ELSE "String", v, 0)
          IN Step(ValueCase(parser, t), GhostOther(ghost, t), t)

NextProps ==
    \/ OnPropKey
    \/ OnPropValue
    \/ OnComma
    \/ OnOpenBlock
    \/ OnCloseBlock

SpecProps == InitParse /\ [][NextProps]_vars

\* The builder's calls on a new graph, in any order, and one resolve() on
\* whatever graph they have made.
InitGraph ==
    /\ graph = GraphInit
    /\ rs = RsInit
    /\ gg = GgInit
    /\ parser = ParserInit
    /\ pc = "parsing"
    /\ out = <<>>
    /\ delegate = DelegateInit
    /\ ghost = GhostInit
    /\ builder = BuilderInit
    /\ tokenizer = NoTokenizer

ResolveFirst == rs.runs = 0 /\ ResolveCall

NextGraph ==
    \/ GlobalSetting
    \/ AddObject
    \/ AddConnection
    \/ ResolveFirst
    \/ LoadSettles
    \/ LoadTexturesThen
    \/ ResolveThen

SpecGraph == InitGraph /\ [][NextGraph]_vars

----------------------------------------------------------------------------
(* Documents: a scene of up to two video clips, a texture and a material,  *)
(* a geometry and a model, as the calls the builder makes for it.          *)

AddObj(node) == [op |-> "addObject", node |-> node]
AddConn(fromID, toID) == [op |-> "addConnection", fromID |-> fromID, toID |-> toID]

Video1Calls ==
    {<<>>} \cup {<<AddObj(ObjectNode("Video", 1, "Clip", ch))>> : ch \in VideoChildren}

Video2Calls ==
    {<<>>,
     <<AddObj(ObjectNode("Video", 2, "Clip", <<RelativeFilename("t.PNG")>>))>>,
     <<AddObj(ObjectNode("Video", 2, "Clip", <<RelativeFilename("t.PNG"), Content>>))>>}

TextureNode ==
    WithChildren(ObjectNode("Texture", 3, "", <<>>),
                 <<Node("ModelUVScaling", <<Num(2), Num(2)>>)>>)

MaterialNode ==
    WithChildren(ObjectNode("Material", 4, "", <<>>),
                 <<Node("DiffuseColor", <<Num(1), Num(0), Num(0)>>)>>)

\* the material, alone or at the end of a chain video -> texture -> material
ChainCalls ==
    {<<>>,
     <<AddObj(MaterialNode)>>,
     <<AddObj(TextureNode), AddObj(MaterialNode), AddConn(3, 4)>>,
     <<AddObj(TextureNode), AddObj(MaterialNode), AddConn(1, 3), AddConn(3, 4)>>,
     <<AddObj(TextureNode), AddObj(MaterialNode), AddConn(2, 3), AddConn(3, 4)>>}

GeometryCalls ==
    {<<>>} \cup {<<AddObj(ObjectNode("Geometry", 5, "Mesh", ch))>> : ch \in GeometryChildren}

ModelCalls ==
    {<<>>,
     <<AddObj(WithChildren(ObjectNode("Model", 6, "Mesh", <<>>),
                           <<Node("Lcl Rotation", <<Num(1), Num(2), Num(3)>>)>>)),
       AddConn(5, 6), AddConn(4, 6), AddConn(6, 0)>>}

Documents ==
    {v1 \o v2 \o c \o g \o m :
        v1 \in Video1Calls, v2 \in Video2Calls, c \in ChainCalls,
        g \in GeometryCalls, m \in ModelCalls}

\* the graph the calls from the i-th on make of g, and the Connection
\* objects that were dropped on the way
RECURSIVE Build(_, _, _, _)
Build(g, dropped, calls, i) ==
    IF i > Len(calls) THEN [g |-> g, dropped |-> dropped]
    ELSE LET c == calls[i] IN
         IF c.op = "addObject"
         THEN Build(addObject(g, c.node).g, dropped, calls, i + 1)
         ELSE LET conn == Connection(i, c.fromID, c.toID, Undefined)
              IN Build(addConnection(g, conn),
                       IF Dangling(g, conn) THEN dropped \cup {i} ELSE dropped,
                       calls, i + 1)

\* resolve(), up to MaxResolves times, on the graph of a document
InitResolve ==
    /\ \E doc \in Documents :
          LET b == Build(GraphInit, {}, doc, 1) IN
          /\ graph = b.g
          /\ gg = [GgInit EXCEPT !.dropped = b.dropped]
    /\ rs = RsInit
    /\ parser = ParserInit
    /\ pc = "parsing"
    /\ out = <<>>
    /\ delegate = DelegateInit
    /\ ghost = GhostInit
    /\ builder = BuilderInit
    /\ tokenizer = NoTokenizer

NextResolve ==
    \/ ResolveCall
    \/ LoadSettles
    \/ LoadTexturesThen
    \/ ResolveThen

SpecResolve == InitResolve /\ [][NextResolve]_vars

----------------------------------------------------------------------------
(* Geometries: one Geometry object with any PolygonVertexIndex array of up  *)
(* to MaxIndexes entries, and one resolve() on its graph.                   *)

MaxIndexes == 3
IndexVals == -3..2

PolygonVertexIndexes == UNION {[1..n -> IndexVals] : n \in 0..MaxIndexes}

GeometryNode(indexes) ==
    ObjectNode("Geometry", 5, "Mesh",
               <<Node("Vertices", <<Arr("Float64", <<0, 0, 0>>)>>),
                 Node("PolygonVertexIndex", <<Arr("Int32", indexes)>>)>>)

InitMesh ==
    /\ \E indexes \in PolygonVertexIndexes :
          graph = addObject(GraphInit, GeometryNode(indexes)).g
    /\ gg = GgInit
    /\ rs = RsInit
    /\ parser = ParserInit
    /\ pc = "parsing"
    /\ out = <<>>
    /\ delegate = DelegateInit
    /\ ghost = GhostInit
    /\ builder = BuilderInit
    /\ tokenizer = NoTokenizer

NextMesh ==
    \/ ResolveFirst
    \/ LoadTexturesThen
    \/ ResolveThen

SpecMesh == InitMesh /\ [][NextMesh]_vars

----------------------------------------------------------------------------
(* Sources: every source of up to MaxSource characters of SourceChars and  *)
(* some longer ones, read by nextToken() as parse() does: until the token  *)
(* is EOF or Invalid.                                                      *)

SourceChars ==
    {"a", "T", ":", "*", "-", "0", "1", ".", ",", "{", "}", " ", "\"", ";", "\n"}

LongSources ==
    {<<"*", "2", "1", "4", "7", "4", "8", "3", "6", "4", "7">>,
     <<"*", "2", "1", "4", "7", "4", "8", "3", "6", "4", "8">>,
     <<"*", "4", "2", "9", "4", "9", "6", "7", "2", "9", "7">>,
     <<"*", "-", "1", " ", "*", "2", ".", "5", " ", "*", "2", ".", "0", "{">>,
     <<"K", "e", "y", ":", " ", "\"", "s", "\"", ",", "-", "1", ".", "5", "}",
       "Y", "\t", "T", ":", "\r", "\n", "a", ":", "b">>,
     <<";", "c", "\n", "a", ":", "*", "3", "{", "1", ",", "2", "}", ";">>}

Sources == LongSources \cup UNION {[1..n -> SourceChars] : n \in 0..MaxSource}

InitToken ==
    /\ \E source \in Sources : tokenizer = Tokenizer(source)
    /\ graph = GraphInit
    /\ gg = GgInit
    /\ rs = RsInit
    /\ parser = ParserInit
    /\ pc = "parsing"
    /\ out = <<>>
    /\ delegate = DelegateInit
    /\ ghost = GhostInit
    /\ builder = BuilderInit

\* var token = this.tokenizer_.nextToken(), while the parser goes on
NextToken ==
    /\ tokenizer.token.type \notin {"EOF", "Invalid"}
    /\ tokenizer' = nextToken(tokenizer)
    /\ UNCHANGED <<pvars, gvars, bvars>>

SpecToken == InitToken /\ [][NextToken]_vars

----------------------------------------------------------------------------
(* Texts: parse() on a source, one iteration of its loop per step: the     *)
(* token is the one nextToken() returns.  The texts are every source of up *)
(* to MaxText characters of TextChars and some longer ones; their numbers  *)
(* are integers without sign.  What block() answers is left open.          *)

MaxText == 4

TextChars == {"a", ":", "*", "1", "{", "}", ",", " ", "\"", ";"}

LongTexts ==
    {<<"a", ":", "*", "2", "{", "a", ":", "1", ",", "2", "}", "\n">>,
     <<"a", ":", "{", "P", ":", "1", "}", "}", "a", ":">>,
     <<"a", ":", "{", "a", ":", "{", "}", "}", " ", "P", ":", "\"", "s", "\"">>,
     <<"a", ":", "*", "1", "{", "a", ":", "1", "}", "}">>,
     <<";", "c", "\n", "P", ":", "1", ",", "\"", "a", "\"", "{", "}", ";", "e">>}

Texts == LongTexts \cup UNION {[1..n -> TextChars] : n \in 0..MaxText}

\* the string of a sequence of characters
RECURSIVE Join(_)
Join(cs) == IF cs = <<>> THEN "" ELSE Head(cs) \o Join(Tail(cs))

\* the integer of a number without fraction
NumberOf(x) == IF x.neg THEN -x.whole ELSE x.whole

\* the token as parse() reads it
ParserToken(tok) ==
    Token(tok.type,
          CASE tok.val.t = "str" -> Str(Join(tok.val.s))
            [] tok.val.t = "num" -> Num(NumberOf(tok.val.n))
            [] OTHER -> Undefined,
          tok.offset)

\* the block structure after token t
GhostAfter(g, t, calls) ==
    CASE t.type = "Key" -> GhostKey(g, t)
      [] t.type = "OpenBlock" -> GhostOpen(g, calls)
      [] t.type = "CloseBlock" -> GhostClose(g)
      [] t.type = "EOF" -> GhostEOF(g)
      [] OTHER -> GhostOther(g, t)

InitText ==
    /\ \E source \in Texts : tokenizer = Tokenizer(source)
    /\ graph = GraphInit
    /\ gg = GgInit
    /\ rs = RsInit
    /\ parser = ParserInit
    /\ pc = "parsing"
    /\ out = <<>>
    /\ delegate = DelegateInit
    /\ ghost = GhostInit
    /\ builder = BuilderInit

\* do { var token = this.tokenizer_.nextToken(); switch ... } while (!this.eof_)
ParseLoop ==
    /\ pc = "parsing"
    /\ \E action \in {"Enter", "Skip"}, read \in {nextToken(tokenizer)} :
          \E t \in {ParserToken(read.token)} :
             \E r \in {TokenCase(parser, t, action)} :
                /\ tokenizer' = read
                /\ Iteration(r, GhostAfter(ghost, t, r.calls), t)
    /\ UNCHANGED <<gvars, bvars>>

SpecText == InitText /\ [][ParseLoop]_vars

\* parse() goes on while it can
SpecTextFair == SpecText /\ WF_vars(ParseLoop)

----------------------------------------------------------------------------
(* Models: two materials, a texture, a geometry and a model, with up to     *)
(* MaxLinks connections into the model from these, from the model itself    *)
(* and from an object that is not there, and one resolve() on the graph.    *)

MaxLinks == 3

LinkSources == {1, 2, 3, 4, 5, 6}

ModelLinks == UNION {[1..n -> LinkSources] : n \in 0..MaxLinks}

SceneCalls(links) ==
    <<AddObj(ObjectNode("Material", 1, "", <<>>)),
      AddObj(ObjectNode("Texture", 3, "", <<>>)),
      AddObj(MaterialNode),
      AddObj(GeometryNode(<<0, 1, -3>>)),
      AddObj(ObjectNode("Model", 6, "Mesh", <<>>))>>
    \o [i \in 1..Len(links) |-> AddConn(links[i], 6)]

InitModels ==
    /\ \E links \in ModelLinks :
          LET b == Build(GraphInit, {}, SceneCalls(links), 1) IN
          /\ graph = b.g
          /\ gg = [GgInit EXCEPT !.dropped = b.dropped]
    /\ rs = RsInit
    /\ parser = ParserInit
    /\ pc = "parsing"
    /\ out = <<>>
    /\ delegate = DelegateInit
    /\ ghost = GhostInit
    /\ builder = BuilderInit
    /\ tokenizer = NoTokenizer

SpecModels == InitModels /\ [][NextMesh]_vars

----------------------------------------------------------------------------
(* Layers: one Geometry object with one layer element of any kind, with    *)
(* index 0 or 1 and up to MaxLayerChildren children, and one resolve().    *)

MaxLayerChildren == 2

MappingNames == {"ByVertice", "ByPolygonVertex", "ByPolygon", "AllSame", "ByEdge"}

LayerChildNodes ==
    {Node("Name", <<Str("n")>>), Node("Materials", <<Arr("Int32", <<0>>)>>)}
    \cup {Node("MappingInformationType", <<Str(m)>>) : m \in MappingNames}

LayerChildren == UNION {[1..n -> LayerChildNodes] : n \in 0..MaxLayerChildren}

LayeredGeometry(layer) ==
    ObjectNode("Geometry", 5, "Mesh",
               <<Node("Vertices", <<Arr("Float64", <<0, 0, 0>>)>>),
                 Node("PolygonVertexIndex", <<Arr("Int32", <<0, 1, -3>>)>>),
                 layer>>)

InitLayers ==
    /\ \E kind \in LayerElements, index \in {0, 1}, ch \in LayerChildren :
          graph = addObject(GraphInit,
                            LayeredGeometry(WithChildren(Node(kind, <<Num(index)>>), ch))).g
    /\ gg = GgInit
    /\ rs = RsInit
    /\ parser = ParserInit
    /\ pc = "parsing"
    /\ out = <<>>
    /\ delegate = DelegateInit
    /\ ghost = GhostInit
    /\ builder = BuilderInit
    /\ tokenizer = NoTokenizer

SpecLayers == InitLayers /\ [][NextMesh]_vars

\* The callbacks of a parser on a new FBX7DocumentParser, in any order that
\* ends no more blocks than were entered.
InitBuilder == InitGraph

NextBuilder ==
    \/ BuilderBlock
    \/ BuilderEndBlock
    \/ BuilderProperty
    \/ BuilderTypedProperty

SpecBuilder == InitBuilder /\ [][NextBuilder]_vars

----------------------------------------------------------------------------
(* Claims about parse() *)

Semantic == {"block", "endBlock", "property", "typedProperty"}

Silent(calls) == \A i \in 1..Len(calls) : calls[i].cb \notin Semantic

\* The index in the stack of the block for which block() answered Skip
SkippedAt(g) == CHOOSE i \in 1..Len(g.stack) : g.stack[i].called = "Skip"

\* C1: for a well-formed input (balanced braces, the key a and array
\* wrappers only after an ArrayCount, only P properties in Properties70),
\* a CloseBlock delivers endBlock() exactly when block() answered Enter for
\* the block it closes, and at EndOfInput the calls are paired and the
\* parser's depth is 0.
C1_BalancedCallbacks ==
    ghost.wellFormed =>
        /\ (ghost.lastType = "CloseBlock" =>
              (Has(out, "endBlock") <=> ghost.closed.called = "Enter"))
        /\ (pc = "done" => delegate.depth = 0 /\ parser.depth_ = 0)

\* C2: while the input is being accepted (any prefix followed by
\* EndOfInput is an accepted input), neither the OpenBlock nor the
\* CloseBlock of a Properties70 block or of an array wrapper makes a
\* block() or endBlock() call.
C2_OpaqueBlocks ==
    pc \in {"parsing", "done"} =>
        /\ ~(/\ ghost.lastType = "OpenBlock"
             /\ Top(ghost).kind \in {"array", "p70"}
             /\ Has(out, "block"))
        /\ ~(/\ ghost.lastType = "CloseBlock"
             /\ ghost.closed.kind \in {"array", "p70"}
             /\ Has(out, "endBlock"))

\* C3: from the OpenBlock for which block() answered Skip (at depth d) up
\* to and including its CloseBlock no block, endBlock, property or
\* typedProperty call is made; the skip marker is d exactly while that
\* block is open and is cleared by its CloseBlock, after which a key that
\* ends a pending property delivers it again.
C3_SkipMarker ==
    /\ Len(ghost.stack) = parser.depth_
    /\ IF InSkip(ghost)
       THEN parser.skippingUntilDepth_ = SkippedAt(ghost) - 1
       ELSE parser.skippingUntilDepth_ = NoSkipDepth

C3_SkippedIsSilent ==
    (pc = "parsing" /\ InSkip(ghost)) => Silent(out')

C3_Resumes ==
    (/\ pc = "parsing" /\ ~InSkip(ghost)
     /\ Len(parser.values_) > 0 /\ ~parser.inProp70Block_
     /\ ghost'.lastType = "Key" /\ ghost'.key # Str("a"))
    => Has(out', "property")

\* C3: a block for which block() answered Skip is skipped whole: the
\* marker holds in every state, and every step is silent inside the block
\* and delivers properties again after it.
C3_Skip == [](C3_SkipMarker) /\ [][C3_SkippedIsSilent /\ C3_Resumes]_pvars

\* A skipped block with something inside has just been closed one level
\* down, and nothing was delivered for it.
C3_Witness ==
    /\ ghost.lastType = "CloseBlock"
    /\ ghost.closed.called = "Skip"
    /\ parser.depth_ = 1
    /\ parser.skippingUntilDepth_ = NoSkipDepth
    /\ out = <<>>

\* C4: error() is called at most once; once it has been called parse() has
\* returned (no further token is read, no further callback is made), the
\* error is the last callback, and completed() was not called: the
\* delegate's assets stay unset.
C4_StopsAtError ==
    /\ delegate.nError <= 1
    /\ delegate.nError = 1 =>
          /\ pc = "error"
          /\ out # <<>> /\ out[Len(out)].cb = "error"
          /\ delegate.nCompleted = 0
          /\ delegate.assets_ = "null"

\* An Invalid token inside a block has been reported.
C4_Witness ==
    /\ pc = "error"
    /\ delegate.nError = 1
    /\ ghost.rejected.type = "Invalid"
    /\ parser.depth_ > 0

\* C5: a token of any kind that the parser does not expect causes exactly
\* one error() call with that token's offset, and parse() returns without
\* an exception.
C5_ErrorForEveryUnexpectedToken ==
    ghost.lastType = "rejected" =>
        /\ pc = "error"
        /\ delegate.nError = 1
        /\ Len(SelectSeq(out, LAMBDA c : c.cb = "error")) = 1
        /\ \A i \in 1..Len(out) :
              out[i].cb = "error" => out[i].offset = ghost.rejected.offset

\* C6: when parse() has consumed the input to EndOfInput without error,
\* completed() has been called exactly once and the delegate's assets are
\* a promise.
C6_CompletedOnce ==
    pc = "done" => delegate.nCompleted = 1 /\ delegate.assets_ = "promise"

----------------------------------------------------------------------------
(* Claims about the document graph and resolve() *)

Cids(conns) == {conns[i].cid : i \in 1..Len(conns)}

\* the Connection objects the graph or one of its nodes holds
HeldCids(g) ==
    Cids(g.connections)
    \cup UNION {Cids(g.nodes[n].connectionsIn) \cup Cids(g.nodes[n].connectionsOut) :
                   n \in 1..Len(g.nodes)}

\* the ObjectSets of the graph
ObjectSets(g) ==
    <<g.allObjects, g.geometryNodes, g.videoNodes, g.textureNodes,
      g.materialNodes, g.modelNodes>>

C7_DroppedIsNowhere ==
    /\ gg.dropped \cap HeldCids(graph) = {}
    /\ (gg.last.op = "addConnection" => ~gg.last.threw)
    /\ rs.why # "fromNode is undefined"

C7_DroppedLeavesGraph ==
    (gg'.last.op = "addConnection" /\ gg'.last.case = "dangling") => graph' = graph

\* C7: a connection with an endpoint id that is no key of allObjects when
\* it is added is in no connection list of the graph or of a node, adding
\* it raises no error and leaves the graph as it was, and no pass of
\* resolve() ever fails on a connection without its endpoint node.
C7_DanglingConnection == [](C7_DroppedIsNowhere) /\ [][C7_DroppedLeavesGraph]_vars

\* a connection was dropped, another was kept, and resolve() made a model
C7_Witness ==
    /\ gg.dropped # {}
    /\ Len(graph.connections) >= 1
    /\ rs.pc = "fulfilled"
    /\ Len(rs.group.models) >= 1

SubClassOf(g, nid) == ValueAt(g.nodes[nid].values, 3)

C8_OnlyMeshAndClip ==
    /\ \A id \in DOMAIN graph.modelNodes :
          SubClassOf(graph, graph.modelNodes[id]) = Str("Mesh")
    /\ \A id \in DOMAIN graph.videoNodes :
          SubClassOf(graph, graph.videoNodes[id]) = Str("Clip")

C8_FilteredLeavesSets ==
    (gg'.last.op = "addObject" /\ gg'.last.case = "filtered")
        => ObjectSets(graph') = ObjectSets(graph)

\* C8: addObject with a Model that is no Mesh or a Video that is no Clip
\* leaves allObjects and every per-class set unchanged, so every entry of
\* modelNodes is a Mesh and every entry of videoNodes is a Clip.
C8_SubClassFilter == [](C8_OnlyMeshAndClip) /\ [][C8_FilteredLeavesSets]_vars

\* a node was filtered out of a graph that holds another object under the
\* same or another id
C8_Witness ==
    /\ gg.last.op = "addObject"
    /\ gg.last.case = "filtered"
    /\ Len(graph.nodes) > 1

\* two promises of the same load tell the same outcome, as far as both
\* were settled when the passes ran
SameOutcome(p, q) ==
    \/ p.state = "pending"
    \/ q.state = "pending"
    \/ (p.state = q.state /\ p.value = q.value)

SameOutcomes(ps, qs) ==
    /\ Len(ps) = Len(qs)
    /\ \A i \in 1..Len(ps) : SameOutcome(ps[i], qs[i])

C9_GraphUnchanged == rs' # rs => graph' = graph

C9_SameAssets ==
    (/\ rs.runs >= 2
     /\ rs.pc \in Settled
     /\ rs.allow = gg.first.allow
     /\ SameOutcomes(rs.proms, gg.first.proms))
        => (rs.pc = gg.first.pc /\ rs.group = gg.first.group)

\* C9: no step of resolve() changes the document graph, and a later
\* resolve() of the same graph with the same option and the same load
\* outcomes ends as the first did, with an identical group.
C9_ResolveLeavesGraph == [](C9_SameAssets) /\ [][C9_GraphUnchanged]_vars

\* the second resolve() made the same textured material and model as the
\* first
C9_Witness ==
    /\ rs.runs = 2
    /\ rs.pc = "fulfilled"
    /\ gg.first.pc = "fulfilled"
    /\ rs.group = gg.first.group
    /\ Len(rs.group.models) >= 1
    /\ \E i \in 1..Len(rs.group.materials) :
          ~rs.group.materials[i].diffuseTexture.null

\* a load that has failed: its promise was fulfilled with null
Missed(prom) == prom.state = "fulfilled" /\ prom.value.null

\* C10: with allowMissingTextures true, resolve() does not throw,
\* loadTextures gives a group with one entry per Video node, null exactly
\* for the textures that failed, and resolve() neither fulfils with null
\* nor rejects for lack of a group.
C10_MissingTexturesAllowed ==
    rs.allow =>
        /\ rs.pc # "threw"
        /\ (rs.pc \in {"textured", "fulfilled"} =>
              /\ ~rs.group.null
              /\ Len(rs.group.textures) = Len(rs.proms)
              /\ \A i \in 1..Len(rs.proms) :
                    rs.group.textures[i].null <=> Missed(rs.proms[i]))
        /\ (rs.pc = "rejected" => rs.why # "group is null")

\* a texture has failed under allowMissingTextures false
Failed(prom) == prom.state = "rejected"

\* C11: with allowMissingTextures false and a failed texture, the promise
\* resolve() returned is rejected once it is settled, whatever else the
\* graph holds; it is never fulfilled.
C11_StrictTexturesReject ==
    (/\ ~rs.allow
     /\ \E i \in 1..Len(rs.proms) : Failed(rs.proms[i])
     /\ rs.pc \in {"fulfilled", "rejected"})
        => rs.pc = "rejected"

\* C12: when resolve()'s handler starts the three passes, no load that
\* loadTextures issued is still pending.
C12_PassesAfterAllLoads ==
    [][(rs.pc = "textured" /\ rs'.pc # "textured")
          => \A i \in 1..Len(rs.proms) : rs.proms[i].state # "pending"]_vars

VideoIds(g) == Ascending(DOMAIN g.videoNodes)

\* C13: a group that loadTextures fulfils with has one textures entry per
\* Video node, in the order of the Video nodes' ids whatever the order the
\* loads completed in, and an entry that is not null has the id of its
\* Video node as userRef.
C13_OneSlotPerVideo ==
    (rs.pc = "textured" /\ ~rs.group.null) =>
        /\ Len(rs.group.textures) = Len(VideoIds(graph))
        /\ \A i \in 1..Len(rs.group.textures) :
              \/ rs.group.textures[i].null
              \/ rs.group.textures[i].userRef = Num(VideoIds(graph)[i])

\* the load of the second video completed before that of the first, and
\* one of the two textures is a null placeholder
C13_Witness ==
    /\ rs.pc = "textured"
    /\ ~rs.group.null
    /\ rs.order = <<2, 1>>
    /\ rs.group.textures[1].null
    /\ ~rs.group.textures[2].null

\* the array the Geometry of the graph has as its PolygonVertexIndex
GivenIndexes == ChildValue(graph.nodes[graph.geometryNodes[5]], "PolygonVertexIndex", Null).a

\* the 0-based positions of the negative entries, in array order
Terminators(indexes) == Ascending({p \in 0..(Len(indexes) - 1) : indexes[p + 1] < 0})

\* the k-th polygon of an array: positions from the one after the previous
\* negative entry to the k-th negative entry, and the entries there with
\* the last one complemented
PolygonOf(indexes, k) ==
    LET ends == Terminators(indexes)
        first == IF k = 1 THEN 0 ELSE ends[k - 1] + 1
        size == ends[k] - first + 1
    IN <<[j \in 1..size |-> first + j - 1],
         [j \in 1..size |-> IF j = size THEN -indexes[first + j] - 1
                                       ELSE indexes[first + j]]>>

\* C14: the polygons buildMeshes commits for a PolygonVertexIndex array are
\* one per negative entry, in array order; each has the array positions since
\* the previous negative entry as polygon-vertex indices and the entries
\* there as vertex indices, the last one v replaced by -v-1; every size >= 1
\* occurs as the array has it and no committed vertex index is negative.
C14_PolygonPerNegativeEntry ==
    rs.pc = "fulfilled" =>
        LET polys == rs.group.meshes[1].meshData
            indexes == GivenIndexes
        IN /\ Len(polys) = Len(Terminators(indexes))
           /\ \A k \in 1..Len(polys) :
                 /\ polys[k] = PolygonOf(indexes, k)
                 /\ Len(polys[k][2]) >= 1
                 /\ \A j \in 1..Len(polys[k][2]) : polys[k][2][j] >= 0

C14_Witness ==
    /\ rs.pc = "fulfilled"
    /\ GivenIndexes = <<-1, 0, -3>>
    /\ rs.group.meshes[1].meshData = << << <<0>>, <<0>> >>, << <<1, 2>>, <<0, 2>> >> >>

\* the table of array-bearing field names
ElementTypeOf(name) ==
    CASE name = "PolygonVertexIndex" -> "Int32"
      [] name = "UVIndex" -> "Int32"
      [] name = "Edges" -> "Int32"
      [] name = "Materials" -> "Int32"
      [] name = "KeyAttrFlags" -> "Int32"
      [] name = "KeyAttrRefCount" -> "Int32"
      [] name = "KeyValueFloat" -> "Float32"
      [] name = "KeyAttrDataFloat" -> "Float32"
      [] OTHER -> "Float64"

\* the token of this step was accepted
Accepted == ghost'.lastType \notin {"rejected", "aborted"}

\* an ArrayCount accepted right after a named key allocates the array the
\* table gives for that key
C15_AllocatedByKey ==
    (ghost'.lastType = "ArrayCount" /\ ghost.lastType = "Key" /\ ghost.key # Str("a"))
        => /\ parser'.array_ # Null
           /\ parser'.array_.s = ElementTypeOf(ghost.key.s)

\* a number stored in the open array leaves the array's element type alone
C15_NumbersKeepType ==
    (ghost'.lastType = "Number" /\ parser.array_ # Null)
        => /\ parser'.array_ # Null
           /\ parser'.array_.s = parser.array_.s

\* in a well-formed input an array delivered as a value of a property has
\* the element type the table gives for the property's name
C15_DeliveredByKey ==
    \A i \in 1..Len(out) :
        (ghost.wellFormed /\ out[i].cb = "property") =>
            \A j \in 1..Len(out[i].values) :
                out[i].values[j].t = "arr"
                    => out[i].values[j].s = ElementTypeOf(out[i].name.s)

C16_CommaOrClose ==
    (pc = "parsing" /\ ghost.lastType = "Number" /\ parser.array_ # Null)
        => parser.expect_ = IF parser.arrayIndex_ < parser.arrayLength_
                            THEN ExpectComma ELSE ExpectClose

\* no CloseBlock is accepted while the open array is not full
C16_EarlyCloseRejected ==
    (parser.array_ # Null /\ parser.arrayIndex_ < parser.arrayLength_
       /\ ghost.lastType = "Number")
        => ghost'.lastType # "CloseBlock"

\* an array delivered while an array is open is that array, full
C16_DeliveredFull ==
    \A i \in 1..Len(out') :
        \A j \in 1..Len(out'[i].values) :
            (parser.array_ # Null /\ out'[i].values[j].t = "arr")
                => /\ parser.arrayIndex_ = parser.arrayLength_
                   /\ Len(out'[i].values[j].a) = parser.arrayLength_

\* C16: while an array is open, after a Number is stored only a Comma is
\* accepted if fewer than N numbers have been stored and only a CloseBlock
\* once N have been; a CloseBlock before the array is full is rejected, and a
\* delivered array holds exactly N parsed numbers.
C16_ArrayFilledBeforeClose ==
    /\ [](C16_CommaOrClose)
    /\ [][C16_EarlyCloseRejected /\ C16_DeliveredFull]_vars

C17_ArrayCountAfterKey ==
    ghost'.lastType = "ArrayCount" => ghost.lastType = "Key"

C17_ThenOpenBlock ==
    (ghost.lastType = "ArrayCount" /\ Accepted /\ ghost'.lastType # "EOF")
        => ghost'.lastType = "OpenBlock"

C17_ThenKeyA ==
    (ghost.lastType = "OpenBlock" /\ Top(ghost).kind = "array"
       /\ Accepted /\ ghost'.lastType # "EOF")
        => ghost'.lastType = "Key" /\ ghost'.key = Str("a")

\* C17: an ArrayCount is accepted only right after an accepted Key; the
\* token accepted after an ArrayCount is an OpenBlock, and the token accepted
\* after that OpenBlock is the Key a: any other Key, a String, a Number, a
\* Comma, a CloseBlock or an ArrayCount there is rejected.
C17_ArrayCountSequence ==
    [][C17_ArrayCountAfterKey /\ C17_ThenOpenBlock /\ C17_ThenKeyA]_vars

C17_Witness ==
    /\ pc = "parsing"
    /\ ghost.lastType = "Key" /\ ghost.key = Str("a")
    /\ Top(ghost).kind = "array"
    /\ parser.array_ # Null /\ parser.expectNextKey_ = Null

\* the property and typedProperty calls among the calls of a step
PropertyCalls(calls) ==
    {i \in 1..Len(calls) : calls[i].cb \in {"property", "typedProperty"}}

\* the call delivers the pending key and values, in their order
Delivers(call, pending) ==
    IF call.cb = "property"
    THEN call.name = pending[1] /\ call.values = Tail(pending)
    ELSE /\ Len(pending) >= 5
         /\ call.name = pending[2]
         /\ call.typeName = pending[3]
         /\ call.values = SubSeq(pending, 6, Len(pending))

\* C18: when a well-formed input is consumed without error, the property
\* that is pending (a key and one or more values) when a Key, a CloseBlock or
\* the EndOfInput ends it outside a skipped subtree, at any depth, is
\* delivered at that point by exactly one property()/typedProperty() call
\* with its values in source order.
C18_EveryPropertyDelivered ==
    [][(/\ Accepted
        /\ ghost'.wellFormed
        /\ ghost'.lastType \in {"Key", "CloseBlock", "EOF"}
        /\ pc' \in {"parsing", "done"}
        /\ Len(parser.values_) >= 2
        /\ ~InSkip(ghost))
           => /\ Cardinality(PropertyCalls(out')) = 1
              /\ \A i \in PropertyCalls(out') : Delivers(out'[i], parser.values_)]_vars

\* the step is the builder's callback op
IsCall(op) == builder'.turn # builder.turn /\ builder'.last.op = op

\* the endBlock() that ends the block of the object being built
Finishes == builder.depth = 2 /\ builder.state = "Object"

\* C19: endBlock() calls addObject and goes back to the state Objects only
\* when the depth drops to 1 in the state Object; an endBlock() that brings
\* the depth to 1 in any other state adds no object and leaves the state and
\* the graph as they were.
C19_AddObjectOnlyInObject ==
    [][IsCall("endBlock") =>
          /\ builder'.last.added <=> Finishes
          /\ Finishes => builder'.state = "Objects"
          /\ (builder.depth = 2 /\ builder.state # "Object")
                => /\ builder'.state = builder.state
                   /\ graph' = graph]_vars

\* C20: block() in the state Root enters GlobalSettings, Objects or
\* Connections for a block of that name and answers Skip, state and depth
\* unchanged, for any other name; in the state Objects it enters Object and
\* starts a new object node for Geometry, Video, Texture, Material and Model
\* and answers Skip, with state, depth and graph unchanged, for any other
\* name.
C20_BlockByName ==
    [][IsCall("block") =>
          LET name == builder'.last.name
              ret == builder'.last.ret
              skipped == /\ ret = "Skip"
                         /\ builder'.state = builder.state
                         /\ builder'.depth = builder.depth
                         /\ builder'.curObject = builder.curObject
                         /\ graph' = graph
          IN /\ builder.state = "Root" =>
                   IF name \in {"GlobalSettings", "Objects", "Connections"}
                   THEN /\ ret = "Enter"
                        /\ builder'.state = name
                        /\ builder'.depth = builder.depth + 1
                   ELSE skipped
             /\ builder.state = "Objects" =>
                   IF name \in {"Geometry", "Video", "Texture", "Material", "Model"}
                   THEN /\ ret = "Enter"
                        /\ builder'.state = "Object"
                        /\ builder'.depth = builder.depth + 1
                        /\ Len(builder'.curObject) = 1
                        /\ builder'.curObject[1].name = name
                        /\ builder'.curObject[1].children = <<>>
                        /\ graph' = graph
                   ELSE skipped]_vars

C20_Witness ==
    /\ builder.last.op = "block" /\ builder.last.name = "Geometry"
    /\ builder.last.ret = "Enter"
    /\ builder.state = "Object" /\ builder.depth = 2
    /\ Len(graph.nodes) = 1

\* the refs of the Node objects of a tree, the root's first
RECURSIVE Refs(_)
Refs(node) ==
    LET RECURSIVE Below(_)
        Below(i) == IF i > Len(node.children) THEN <<>>
                    ELSE Refs(node.children[i]) \o Below(i + 1)
    IN <<node.ref>> \o Below(1)

\* ref |-> parent, for the Node objects of a tree
RECURSIVE Parents(_)
Parents(node) ==
    {<<node.ref, node.parent>>}
        \cup UNION {Parents(node.children[i]) : i \in 1..Len(node.children)}

\* every node in some children has the holder of those children as parent
RECURSIVE ChildOfParent(_)
ChildOfParent(node) ==
    \A i \in 1..Len(node.children) :
        /\ node.children[i].parent = <<node.ref>>
        /\ ChildOfParent(node.children[i])

\* no Node object occurs twice in the tree
Once(refs) == \A i, j \in 1..Len(refs) : refs[i] = refs[j] => i = j

IsTree(root) ==
    /\ root.parent = <<>>
    /\ ChildOfParent(root)
    /\ Once(Refs(root))

\* the object being built and the objects built are trees, and the
\* assertion of appendChild has not failed
C21_Trees ==
    /\ builder.curObject # <<>> => IsTree(builder.curObject[1])
    /\ \A i \in 2..Len(graph.nodes) : IsTree(graph.nodes[i])
    /\ builder.last.why # "Can't re-parent a Node"

\* while an object is built, a parent once assigned stays
C21_ParentAssignedOnce ==
    (builder.curObject # <<>> /\ builder'.curObject # <<>>)
        => \A rp \in Parents(builder.curObject[1]) :
              rp[2] # <<>> => rp \in Parents(builder'.curObject[1])

\* C21: after any sequence of callbacks the nodes built under each object
\* form a tree: a node's parent is assigned at most once, a node with parent
\* p occurs exactly once in p.children and in no other children, the object
\* node has no parent, and the "Can't re-parent a Node" assertion never
\* fails.
C21_NodesFormTree ==
    /\ [](C21_Trees)
    /\ [][C21_ParentAssignedOnce]_vars

\* an object with a child block and a property in it has been added
C21_Witness ==
    /\ Len(graph.nodes) = 2
    /\ Refs(graph.nodes[2]) = <<1, 2, 3>>
    /\ Len(graph.nodes[2].children) = 1
    /\ Len(graph.nodes[2].children[1].children) = 1

\* the step is a property the builder receives in the state Connections
ConnectionsProperty ==
    /\ builder.state = "Connections"
    /\ IsCall("property") \/ IsCall("typedProperty")

\* what the connection submitted says, apart from the nodes it resolved to
Submitted(conn) ==
    [fromID |-> conn.fromID, toID |-> conn.toID, propName |-> conn.propName]

\* C22: in the state Connections a C property with binding OO submits the
\* connection from values[1] to values[2] without a property name, one with
\* binding OP submits it with the property name values[3], one with any
\* other binding leaves the graph unchanged; a property of another name
\* fails its assertion and leaves the graph unchanged.
C22_ConnectionsByBinding ==
    [][ConnectionsProperty =>
          LET call == builder'.last
              made == [i \in 1..Len(call.made) |-> Submitted(call.made[i])]
              binding == call.values[1]
          IN IF call.name # "C"
             THEN /\ builder'.threw
                  /\ call.why = "Only C properties are allowed inside Connections"
                  /\ made = <<>> /\ graph' = graph
             ELSE IF binding = Str("OO")
             THEN /\ ~builder'.threw
                  /\ made = <<[fromID |-> call.values[2].n, toID |-> call.values[3].n,
                               propName |-> Undefined]>>
             ELSE IF binding = Str("OP")
             THEN /\ ~builder'.threw
                  /\ made = <<[fromID |-> call.values[2].n, toID |-> call.values[3].n,
                               propName |-> call.values[4]]>>
             ELSE /\ ~builder'.threw
                  /\ made = <<>> /\ graph' = graph]_vars

C22_Witness ==
    /\ builder.state = "Connections"
    /\ builder.last.op = "property" /\ builder.last.values[1] = Str("OP")
    /\ Len(builder.last.made) = 1
    /\ builder.last.made[1].propName = Str("DiffuseColor")

\* the Material nodes of the graph with at least one incoming connection
LinkedMaterials(g) ==
    {id \in DOMAIN g.materialNodes : Len(g.nodes[g.materialNodes[id]].connectionsIn) > 0}

HasMaterial(group, id) ==
    \E i \in 1..Len(group.materials) : LooseEq(group.materials[i].userRef, id)

\* C23: buildMaterials does not fail on a broken texture chain: when the
\* passes run on a group, every Material node with an incoming connection
\* has its material in the group afterwards, whatever the source of its first
\* connection is, and no exception comes from the chain.
C23_BrokenChainTolerated ==
    [][(rs.pc = "textured" /\ ~rs.group.null /\ rs'.pc \in {"fulfilled", "rejected"})
          => /\ \A id \in LinkedMaterials(graph) : HasMaterial(rs'.group, id)
             /\ rs'.why # "texNode.connectionsIn[0] is undefined"]_vars

\* the ids of the sources of the given class among connections, in order
RECURSIVE SourcesOf(_, _, _)
SourcesOf(g, conns, class) ==
    IF conns = <<>> THEN <<>>
    ELSE LET rest == SourcesOf(g, Tail(conns), class)
         IN IF g.nodes[Head(conns).fromNode].name = class
            THEN <<Head(conns).fromID>> \o rest
            ELSE rest

\* C24: for every Model node buildModels appends one model; its materials
\* are those of the node's incoming connections from Material nodes, in
\* connection order, its mesh is that of an incoming connection from a
\* Geometry node, and a connection from a node of another class changes
\* nothing and raises no error.
C24_ModelLinks ==
    rs.pc \in {"fulfilled", "rejected"} =>
        LET ids == Ascending(DOMAIN graph.modelNodes) IN
        /\ rs.pc = "fulfilled"
        /\ Len(rs.group.models) = Len(ids)
        /\ \A k \in 1..Len(ids) :
              LET conns == graph.nodes[graph.modelNodes[ids[k]]].connectionsIn
                  mats == SourcesOf(graph, conns, "Material")
                  geoms == SourcesOf(graph, conns, "Geometry")
                  model == rs.group.models[k]
              IN /\ model.userRef = Num(ids[k])
                 /\ Len(model.materials) = Len(mats)
                 /\ \A j \in 1..Len(mats) :
                       model.materials[j].userRef = Str(NumberToString(mats[j]))
                 /\ IF geoms = <<>> THEN model.mesh.null
                    ELSE /\ ~model.mesh.null
                         /\ model.mesh.userRef = Num(geoms[Len(geoms)])

\* materials 4 and 1 in that order, past a texture, with the mesh
C24_Witness ==
    /\ rs.pc = "fulfilled"
    /\ Len(rs.group.models) = 1
    /\ Len(rs.group.models[1].materials) = 2
    /\ rs.group.models[1].materials[1].userRef = Str("4")
    /\ rs.group.models[1].materials[2].userRef = Str("1")
    /\ Len(graph.nodes[graph.modelNodes[6]].connectionsIn) = 3

\* the layer element of the Geometry 5, where it has index 0
LayerNode == graph.nodes[graph.geometryNodes[5]].children[3]

\* the mapping names the layer element gives, in order
RECURSIVE GivenMappings(_)
GivenMappings(children) ==
    IF children = <<>> THEN <<>>
    ELSE IF Head(children).name = "MappingInformationType"
         THEN <<Head(children).values[1].s>> \o GivenMappings(Tail(children))
         ELSE GivenMappings(Tail(children))

LastMapping(names) == IF names = <<>> THEN "" ELSE names[Len(names)]

Assertions ==
    {"A material stream must be a single value or be applied per polygon",
     "Unknown stream mapping name"}

\* C25: a LayerElementMaterial whose mapping is not ByPolygon or AllSame, or
\* that has no MappingInformationType, is a failed assertion; every Material
\* stream that is returned has includeInMesh = false; a layer element of
\* another kind is accepted with each of the four mapping names.
C25_MaterialStreamMapping ==
    (rs.pc \in {"fulfilled", "rejected"} /\ LayerNode.values[1] = Num(0)) =>
        LET names == GivenMappings(LayerNode.children)
            isMaterial == LayerNode.name = "LayerElementMaterial"
            known == \A i \in 1..Len(names) : MappingOf(names[i]) # ""
        IN /\ (isMaterial /\ LastMapping(names) \notin {"ByPolygon", "AllSame"})
                 => (rs.pc = "rejected" /\ rs.why \in Assertions)
           /\ rs.pc = "fulfilled"
                 => /\ Len(rs.group.meshes[1].streams) = 1
                    /\ rs.group.meshes[1].streams[1].includeInMesh = ~isMaterial
           /\ (~isMaterial /\ known)
                 => /\ rs.pc = "fulfilled"
                    /\ rs.group.meshes[1].streams[1].mapping =
                          IF names = <<>> THEN "Undefined"
                          ELSE MappingOf(LastMapping(names))

\* a material layer without MappingInformationType has failed the assertion
C25_Witness ==
    /\ rs.pc = "rejected"
    /\ LayerNode.name = "LayerElementMaterial"
    /\ LayerNode.values[1] = Num(0)
    /\ GivenMappings(LayerNode.children) = <<>>
    /\ Len(LayerNode.children) = 1
    /\ rs.why = "A material stream must be a single value or be applied per polygon"

\* C26: buildMeshes tolerates partial geometry: with a Geometry node that
\* has no PolygonVertexIndex child or no Vertices child the pass raises no
\* exception, and resolve() does not reject because of it.
C26_PartialGeometryTolerated ==
    [][(rs.pc = "textured" /\ ~rs.group.null /\ rs'.pc = "rejected")
          => rs'.why # "polygonIndexes is null"]_vars

ClassSets == {"geometryNodes", "videoNodes", "textureNodes", "materialNodes", "modelNodes"}

\* C27: after any sequence of addObject calls allObjects is a superset of
\* every per-class map: for every id in the Geometry, Video, Texture,
\* Material or Model map, allObjects[id] is the node the per-class map
\* holds for that id.
C27_AllObjectsSuperset ==
    \A set \in ClassSets : \A id \in DOMAIN graph[set] :
        /\ id \in DOMAIN graph.allObjects
        /\ graph.allObjects[id] = graph[set][id]

\* the offset of the first delimiter from offset o on, or the length
RECURSIVE BreakAt(_, _)
BreakAt(source, o) ==
    IF o >= Len(source) THEN Len(source)
    ELSE IF source[o + 1] \in BreakChars THEN o
    ELSE BreakAt(source, o + 1)

\* the delimiter-bounded text of the token returned last
TokenText == Substring(tokenizer.source, tokenizer.token.offset,
                       BreakAt(tokenizer.source, tokenizer.token.offset))

\* the token returned last starts with a character of the set
StartsWith(set) ==
    /\ tokenizer.token.type \notin {"none", "EOF"}
    /\ tokenizer.source[tokenizer.token.offset + 1] \in set

\* C28: a delimiter-bounded token that starts with a letter is a Key, with
\* its text without the ':' as value, if and only if it ends with ':'; the
\* tokens T and Y are String tokens; every other is Invalid.
C28_KeyIffColon ==
    StartsWith(Letters) =>
        LET text == TokenText
            token == tokenizer.token
        IN IF text \in {<<"T">>, <<"Y">>}
           THEN token.type = "String" /\ token.val = StrVal(text)
           ELSE /\ token.type = "Key" <=> text[Len(text)] = ":"
                /\ token.type = "Key" => token.val = StrVal(SubSeq(text, 1, Len(text) - 1))
                /\ token.type # "Key" => token.type = "Invalid"

\* T: is the Key T
C28_Witness ==
    /\ tokenizer.token.type = "Key"
    /\ tokenizer.token.val = StrVal(<<"T">>)
    /\ TokenText = <<"T", ":">>

\* C29: a token *N is an ArrayCount with value N if and only if N parses to
\* an integer from 1 to 2^31 - 1; a lone *, *0, a negative or fractional
\* count and a count of 2^31 or more are Invalid; the value of an
\* ArrayCount is a positive 32-bit integer.
C29_ArrayCountRange ==
    /\ StartsWith({"*"}) =>
          LET count == parseFloat(Tail(TokenText))
              token == tokenizer.token
              inRange == /\ ~count.nan
                         /\ count.frac = <<>>
                         /\ ~count.neg
                         /\ ~count.big
                         /\ count.whole >= 1
          IN /\ token.type = "ArrayCount" <=> inRange
             /\ token.type = "ArrayCount" => token.val = NumVal(IntNumber(count.whole))
             /\ token.type # "ArrayCount" => token.type = "Invalid"
    /\ tokenizer.token.type = "ArrayCount" =>
          /\ StartsWith({"*"})
          /\ tokenizer.token.val.n.int32 \in 1..MaxInt32

\* the count 2^31 is not an ArrayCount
C29_Witness ==
    /\ tokenizer.token.type = "Invalid"
    /\ TokenText = <<"*", "2", "1", "4", "7", "4", "8", "3", "6", "4", "8">>

Terminators30 == {",", "{", "}"}

PunctuationType(c) ==
    CASE c = "," -> "Comma" [] c = "{" -> "OpenBlock" [] c = "}" -> "CloseBlock"

\* C30: no character is lost or read twice: the ',', '{' or '}' that ends a
\* key, number or array count is the very next token, white space that
\* ends one gives no token, the offsets of the tokens increase strictly,
\* and the cursor moves back only onto the last character of a bare token.
C30_NoCharacterLost ==
    [][LET source == tokenizer.source
           prev == tokenizer.token
           new == tokenizer'.token
           end == BreakAt(source, prev.offset)
       IN /\ (prev.type \in {"Key", "Number", "ArrayCount"} /\ end < Len(source))
                => IF source[end + 1] \in Terminators30
                   THEN new.offset = end /\ new.type = PunctuationType(source[end + 1])
                   ELSE new.offset > end
          /\ new.offset > prev.offset
          /\ tokenizer'.offset > tokenizer.offset
          /\ new.type \in {"Key", "Number", "ArrayCount"}
                => tokenizer'.offset = BreakAt(source, new.offset) - 1
          /\ (\A i \in 1..Len(source) : source[i] # ";")
                => \A o \in (tokenizer.offset + 1)..(new.offset - 1) :
                      source[o + 1] \in WhiteSpace]_tokenizer

\* the '{' that ended the count *1 has been returned right after it
C30_Witness ==
    /\ tokenizer.token.type = "OpenBlock"
    /\ tokenizer.token.offset = 2
    /\ SubSeq(tokenizer.source, 1, 3) = <<"*", "1", "{">>

\* what is left of the source after the cursor is white space or comment
RECURSIVE OnlyBlank(_, _, _)
OnlyBlank(source, o, inComment) ==
    IF o >= Len(source) THEN TRUE
    ELSE LET c == source[o + 1] IN
         IF inComment THEN OnlyBlank(source, o + 1, c \notin {"\r", "\n"})
         ELSE IF c = ";" THEN OnlyBlank(source, o + 1, TRUE)
         ELSE c \in WhiteSpace /\ OnlyBlank(source, o + 1, FALSE)

\* one iteration of the loop: the token consumes a character or is EOF, EOF
\* is returned exactly when nothing is left, and EOF or an error ends the loop
C31_EachIteration ==
    LET new == tokenizer'.token IN
    /\ pc # "parsing" => tokenizer' = tokenizer
    /\ tokenizer' # tokenizer =>
          /\ new.type = "EOF" \/ tokenizer'.offset > tokenizer.offset
          /\ new.type = "EOF" <=> OnlyBlank(tokenizer.source, tokenizer.offset + 1, FALSE)
          /\ new.type = "EOF" => tokenizer'.offset = tokenizer.length
          /\ (new.type = "EOF" \/ Has(out', "error") \/ pc' = "threw") => pc' # "parsing"

\* C31: parse() terminates on every finite input: each nextToken() call
\* consumes at least one character or returns EOF, EOF is returned once the
\* cursor reaches the end of the source, and the loop exits at the first
\* EOF or error without another nextToken() call.
C31_ParseTerminates ==
    /\ <>(pc # "parsing")
    /\ [][C31_EachIteration]_vars

\* the loop has ended on the EOF of a text with a key and a number before it
C31_Witness ==
    /\ pc = "done"
    /\ tokenizer.token.type = "EOF"
    /\ tokenizer.source = <<"a", ":", " ", "1">>

\* A step that closes a pending property of the key P with four or more
\* values inside a Properties70 block that is not skipped: the next key, or
\* the brace that ends the block.
ClosesP(min, max) ==
    /\ parser.values_ # <<>>
    /\ Len(parser.values_) - 1 >= min
    /\ Len(parser.values_) - 1 <= max
    /\ Top(ghost).kind = "p70"
    /\ ~InSkip(ghost)
    /\ ghost'.lastType \in {"Key", "CloseBlock", "aborted"}

TypedCalls(calls) == SelectSeq(calls, LAMBDA c : c.cb \in {"typedProperty", "property"})

\* C32: every P property closed inside a non-skipped Properties70 block with
\* at least four values v is delivered as exactly one typedProperty(v[0],
\* type, v[1], v[4..]) call, type being the table entry of the lower-cased
\* type name or Unknown, and the parse goes on.
C32_TypedPropertyDelivered ==
    [][(ClosesP(4, MaxPropValues) /\ parser.values_[1] = Str("P")) =>
          LET v == Tail(parser.values_) IN
          /\ v[2].t = "str"
          /\ TypedCalls(out') =
                <<TypedPropertyCall(v[1], fbxTypeNameMapping(ToLowerCase(v[2].s)), v[2],
                                    SubSeq(v, 5, Len(v)))>>
          /\ pc' = "parsing"]_vars

\* the pending property is no P, or a P with fewer than four values
Malformed(values) == values[1] # Str("P") \/ Len(values) - 1 < 4

\* C33: a malformed Properties70 record in a non-skipped block (a key that is
\* not P, or a P with fewer than four values) aborts parse() with an assertion
\* failure: error() is not called and no typedProperty() or property() call
\* is made for the record.
C33_MalformedRecordAborts ==
    [][(ClosesP(0, MaxPropValues) /\ Malformed(parser.values_)) =>
          /\ pc' = "threw"
          /\ ~Has(out', "error")
          /\ TypedCalls(out') = <<>>]_vars

\* a step that accepts a CloseBlock token
ClosesBlock == ghost'.lastType = "CloseBlock"

\* C34: depth_ is never negative, and a CloseBlock token is accepted only
\* when depth_ > 0: a brace that would close more blocks than were opened is
\* rejected as unexpected, whatever tokens preceded it.
C34_DepthNeverNegative ==
    /\ [](parser.depth_ >= 0)
    /\ [][ClosesBlock => parser.depth_ > 0 /\ parser'.depth_ = parser.depth_ - 1]_vars
    /\ [](parser.depth_ = 0 => "Close" \notin parser.expect_)

\* a brace after the value of a top-level property has been rejected
C34_Witness ==
    /\ ghost.lastType = "rejected"
    /\ ghost.rejected.type = "CloseBlock"
    /\ parser.depth_ = 0
    /\ Len(parser.values_) = 2

\* a step on a token taken while an OpenBlock is among the expected tokens
\* that opens a block or fails an assertion
OpensBlock ==
    /\ pc = "parsing"
    /\ "Open" \in parser.expect_
    /\ ghost'.lastType \in {"OpenBlock", "aborted"}

\* C35: the assertion of reportBlock holds whenever an OpenBlock token is
\* accepted: the pending values are not empty and start with the key that
\* names the block, also when the OpenBlock follows a key a that no
\* ArrayCount preceded.
C35_BlockHasName ==
    [][OpensBlock =>
          /\ parser.values_ # <<>>
          /\ ghost.key # Str("a") => parser.values_[1] = ghost.key]_vars

\* C36: for any input, in every prefix of the callback sequence the endBlock()
\* calls do not outnumber the block() calls answered with Enter (the
\* delegate's depth is never negative), and endBlock() is delivered only for
\* a block the delegate was asked to enter.
C36_EndBlocksWithinBlocks ==
    /\ [](delegate.depth >= 0)
    /\ [][Has(out', "endBlock") => ghost'.closed.called = "Enter"]_vars

\* how often the Connection object c is in a list
Occurs(list, c) == Cardinality({k \in 1..Len(list) : list[k].cid = c.cid})

\* the entries of all lists of one kind, over every node the graph holds
Total(g, field) ==
    LET RECURSIVE Sum(_)
        Sum(n) == IF n = 0 THEN 0 ELSE Sum(n - 1) + Len(g.nodes[n][field])
    IN Sum(Len(g.nodes))

\* C37: after any sequence of addObject and addConnection calls every
\* connection of the connections list has both nodes and is exactly once in
\* fromNode.connectionsOut and in toNode.connectionsIn, every entry of a
\* node's connectionsIn or connectionsOut is in the connections list, and the
\* three totals are equal.
C37_ConnectionsSymmetric ==
    /\ \A i \in 1..Len(graph.connections) :
          LET c == graph.connections[i] IN
          /\ c.fromNode \in 1..Len(graph.nodes)
          /\ c.toNode \in 1..Len(graph.nodes)
          /\ Occurs(graph.connections, c) = 1
          /\ Occurs(graph.nodes[c.fromNode].connectionsOut, c) = 1
          /\ Occurs(graph.nodes[c.toNode].connectionsIn, c) = 1
    /\ \A n \in 1..Len(graph.nodes) :
          /\ \A k \in 1..Len(graph.nodes[n].connectionsOut) :
                LET c == graph.nodes[n].connectionsOut[k] IN
                c.fromNode = n /\ \E i \in 1..Len(graph.connections) : graph.connections[i] = c
          /\ \A k \in 1..Len(graph.nodes[n].connectionsIn) :
                LET c == graph.nodes[n].connectionsIn[k] IN
                c.toNode = n /\ \E i \in 1..Len(graph.connections) : graph.connections[i] = c
    /\ Total(graph, "connectionsIn") = Len(graph.connections)
    /\ Total(graph, "connectionsOut") = Len(graph.connections)

\* two connections are held, one of them from a node to itself
C37_Witness ==
    /\ Len(graph.connections) = 2
    /\ \E i \in 1..2 : graph.connections[i].fromNode = graph.connections[i].toNode
    /\ \E i \in 1..2 : graph.connections[i].fromNode # graph.connections[i].toNode

\* the Connection object made by this step is in the connections list
Retained(cid) == \E i \in 1..Len(graph'.connections) : graph'.connections[i].cid = cid

\* an addConnection step: retained exactly when both ids were keys of
\* allObjects before it, with the nodes the ids had then
C38_RetainedIffKnown ==
    NumConns' # NumConns =>
       LET cid == NumConns + 1 IN
       /\ Retained(cid) <=> gg'.last.case = "kept"
       /\ Retained(cid) <=> cid \notin gg'.dropped
       /\ \A i \in 1..Len(graph'.connections) :
             LET c == graph'.connections[i] IN
             c.cid = cid =>
                /\ c.fromID \in DOMAIN graph.allObjects
                /\ c.toID \in DOMAIN graph.allObjects
                /\ c.fromNode = graph.allObjects[c.fromID]
                /\ c.toNode = graph.allObjects[c.toID]

\* what was dropped stays dropped, what was retained stays as it is, and the
\* nodes it points to stay the objects they were
C38_Permanent ==
    /\ gg.dropped \subseteq gg'.dropped
    /\ gg'.dropped \cap HeldCids(graph') = {}
    /\ Len(graph'.connections) >= Len(graph.connections)
    /\ \A i \in 1..Len(graph.connections) :
          LET c == graph.connections[i] IN
          /\ graph'.connections[i] = c
          /\ graph'.nodes[c.fromNode].values = graph.nodes[c.fromNode].values
          /\ graph'.nodes[c.toNode].values = graph.nodes[c.toNode].values

\* C38: a connection record is retained if and only if both endpoint ids are
\* keys of allObjects when it is processed; a record dropped is not revived
\* when the object is added later, and a retained connection keeps pointing
\* to the nodes that held the ids at that moment.
C38_RetainedAtInsertion == [][C38_RetainedIffKnown /\ C38_Permanent]_vars

\* one connection was dropped, a later one was retained, and the id of its
\* source has since been given to another node
C38_Witness ==
    /\ gg.dropped = {1}
    /\ Len(graph.connections) = 1
    /\ graph.allObjects[graph.connections[1].fromID] # graph.connections[1].fromNode

\* C39: for every sequence of delegate callbacks, each call the builder makes
\* to addObject passes a node that is not null and whose name is Geometry,
\* Video, Texture, Material or Model, so the assertion "Unknown object class"
\* cannot fail.
C39_AddObjectGetsKnownClass ==
    [][(IsCall("endBlock") /\ builder'.last.added) =>
          /\ builder.curObject # <<>>
          /\ builder.curObject[1].name \in knownObjects
          /\ typeSetMap(builder.curObject[1].name) # ""]_vars
====
